---- MODULE Spec2Model ----
(***************************************************************************)
(* leeward: pool of pre-forked sandbox workers.                            *)
(*                                                                         *)
(* The daemon side (WorkerPool, Worker, ParentPipe) and the child side     *)
(* (worker_main, ChildPipe) of crates/leeward-core and                     *)
(* crates/leeward-daemon, as a state machine.  Every request task runs     *)
(* WorkerPool::execute; tasks interleave at the points where the code      *)
(* takes or waits for a worker's mutex and where it blocks on a pipe.      *)
(***************************************************************************)
EXTENDS Integers, Sequences, FiniteSets, TLC

(* ------------------------------------------------------------------ *)
(* Bounds of the model                                                 *)
(* ------------------------------------------------------------------ *)

\* Workers in the pool (num_workers of WorkerPool::new).
NumWorkers == 2

\* Request tasks: each is one Execute request, from its arrival in
\* handle_request to the return of WorkerPool::execute.
NumClients == 3

\* Process ids the kernel can hand out.
MaxPid == 3

\* A fresh pool may first serve, one after the other and without incident,
\* a number of requests that leaves worker 0 at most Headroom executions
\* below the recycle threshold.
Headroom == 1

\* Threads that call allocate_slot and free_slot.
NumThreads == 2

\* A fresh arena may first hand out, one call after the other, a number of
\* slots that leaves at most SlotHeadroom of them free.
SlotHeadroom == 2

\* Code frames one child serves before its loop ends; frames sent through
\* one pipe.
MaxFrames == 3

\* Payload lengths are taken within Slack bytes of zero and of each limit.
Slack == 1

\* Calls of write_request on one mapping.
MaxWrites == 2

\* Client connections the server accepts.
NumConns == 2

\* Request frames read from one connection.
MaxRequests == 2

(* ------------------------------------------------------------------ *)
(* Program constants                                                   *)
(* ------------------------------------------------------------------ *)

\* guard.should_recycle(100)
MaxExecutions == 100

\* pub const MAX_SLOTS: usize = 64
MAX_SLOTS == 64

\* pub const REQUEST_SLOT_SIZE: usize = 64 * 1024
REQUEST_SLOT_SIZE == 65536

\* pub const RESPONSE_SLOT_SIZE: usize = 1024 * 1024
RESPONSE_SLOT_SIZE == 1048576

\* The largest value of the AtomicU32 counter.  u32::MAX is beyond the
\* integers of the model checker; its largest integer stands for it.
U32Max == 2147483647

\* ChildPipe::recv_code: `len > 1024 * 1024`
MaxCodeFrame == 1048576

\* ParentPipe::recv_result: `len > 10 * 1024 * 1024`
MaxResultFrame == 10485760

Workers == 0 .. (NumWorkers - 1)
Threads == 1 .. NumThreads
Clients == 1 .. NumClients
NoClient == 0
NoPid == 0
Pids == 1 .. MaxPid
Conns == 1 .. NumConns

\* Representative programs a client may submit:
\*   "ok"    finishes before the wall-clock ceiling (config.timeout)
\*   "slow"  finishes, but only after the ceiling has lapsed
\*   "flood" finishes, printing more than the 10 MiB result-frame limit
\*   "huge"  is itself longer than the 1 MiB code-frame limit
\* (Code that never finishes behaves, up to any moment, like "slow" code that
\* has not finished yet.)
Codes == {"ok", "slow", "flood", "huge"}

\* Programs that fail inside the sandbox:
\*   "exit7" ends with sys.exit(7)
\*   "crash" makes the interpreter die of a signal
\*   "nul"   contains a NUL byte: the interpreter cannot be launched with it
FailingCodes == {"exit7", "crash", "nul"}

VARIABLES
    \* Worker (worker.rs:16-23), one per pool entry
    state,            \* WorkerState
    pid,              \* Option<i32>, NoPid for None
    execution_count,  \* u64
    pipe,             \* Option<ParentPipe>: TRUE for Some
    \* Arc<Mutex<Worker>> (pool.rs:10): the task holding the mutex
    guard,
    \* the two OS pipes of the current incarnation (pipe.rs:9-17)
    code_q,           \* frames written by the parent, not yet read by the child
    result_q,         \* frames written by the child, not yet read by the parent
    \* the child process of the current incarnation (worker_main)
    child,            \* [pc, cur, lapsed]
    procs,            \* pids of children that exist (running or unreaped)
    \* frame counters of the current incarnation
    sent,             \* code frames written by the parent
    rcvd,             \* result frames read by the parent
    cread,            \* well-formed code frames read by the child
    cwrote,           \* result frames written by the child
    \* request tasks
    pc,               \* position inside WorkerPool::execute
    idx,              \* get_idle: index of the worker being looked at
    target,           \* the worker get_idle returned
    code,             \* the code submitted
    res,              \* what WorkerPool::execute returned
    got,              \* the result frame Worker::execute read
    note,             \* per request: facts recorded about its run
    \* WorkerPool::new and the daemon's main
    built,            \* workers.len() while the pool is being built
    daemon,           \* "starting", "serving" or "failed"
    id,               \* Worker.id of the pool's entries, NoWorker for no entry
    \* SharedMemoryRegion (shm.rs:18-27) and the threads that call it
    active_requests,  \* AtomicU32
    held,             \* SlotPairs handed out and not yet given back
    shm_pc,           \* position of a thread inside allocate_slot
    shm_slot,         \* allocate_slot: the local slot_id (0 outside the call)
    shm_res,          \* what the thread's last allocate_slot returned
    shm_own,          \* the slot_id of the SlotPair the thread got last and
                      \* has not freed
    \* SeccompConfig (seccomp.rs:12-19) and the process it is applied to
    sc_config,        \* [notify_mode, log_denials]; allowed_syscalls is fixed
    sc_filter,        \* the filter installed, NoFilter before apply()
    sc_last,          \* the last syscall the process made and what became of it
    sc_alive,         \* the process (thread) has not been killed
    sc_ret,           \* what SeccompConfig::apply returned
    \* one cloned child, from clone_worker's child branch to its exit
    wm_pc,            \* position inside worker_main
    wm_net,           \* config.allow_network
    wm_steps,         \* the isolation steps that have succeeded, in order
    wm_landlock,      \* how landlock.apply() came out
    wm_frames,        \* code frames executed by the loop
    wm_result,        \* what child_fn() returned
    wm_exit,          \* the status the child exited with
    \* open pipe ends, per process, while the pool's workers are spawned
    fd_daemon,        \* pipe ends open in the daemon
    fd_child,         \* pipe ends open in each worker's child process
    fd_pc,            \* how far the daemon is with each worker's spawn
    fd_cpc,           \* what each child is doing
    \* one OS pipe, byte for byte, with its sender and its receiver
    fr_dir,           \* "code" (parent to child) or "result" (child to parent)
    fr_wire,          \* frames written and not yet read
    fr_n,             \* frames handed to the sender so far
    fr_last,          \* the payload last handed to the sender
    fr_got,           \* what the receiver's last recv returned
    fr_rx,            \* "open", or "aborted" once a recv has failed
    \* MappedSharedMemory (shm.rs:130-135): the mapped bytes and one caller
    sm_mem,           \* the bytes of the mapping, as extents
    sm_prev,          \* the bytes before the last write_request
    sm_n,             \* calls of write_request so far
    sm_slot,          \* slot_id of the SlotPair last written to
    sm_len,           \* code.len() of the last write_request
    sm_res,           \* what the last write_request returned
    sm_rd,            \* the last read_response: its slot, the length in the
                      \* slot's prefix, the bytes it read and what it returned
    \* handle_connection (server.rs:32-70), one task per accepted connection
    cn_pc,            \* "none", "read", "execute", "status" or "closed"
    cn_peer,          \* the client's end: "open", "gone", "gone mid-call"
    cn_read,          \* how many request frames have been read
    cn_req,           \* the kind of the request frame last read
    cn_sent,          \* how many response frames have been written
    cn_last,          \* the response frame last written
    cn_task,          \* the request task of the Execute being handled
    cn_st,            \* pool.status(): index and counters of its loop
    cn_end,           \* how handle_connection returned
    \* protocol::encode and protocol::decode (protocol.rs:77-84)
    cd_kind,          \* the type decoded to: "Request" or "Response"
    cd_val,           \* the message given to encode
    cd_wire,          \* what encode returned
    cd_out,           \* what decode returned
    \* MountConfig (mounts.rs:10-19) and one call of MountConfig::apply
    mt_cfg,           \* the configuration
    mt_pc,            \* where apply is
    mt_i,             \* the index of the loop apply is in
    mt_log,           \* the mount operations performed, in order
    mt_ret            \* what apply returned

vars == << state, pid, execution_count, pipe, guard, code_q, result_q, child,
           procs, sent, rcvd, cread, cwrote, pc, idx, target, code, res, got,
           note, built, daemon, id,
           active_requests, held, shm_pc, shm_slot, shm_res, shm_own,
           sc_config, sc_filter, sc_last, sc_alive, sc_ret,
           wm_pc, wm_net, wm_steps, wm_landlock, wm_frames, wm_result, wm_exit,
           fd_daemon, fd_child, fd_pc, fd_cpc,
           fr_dir, fr_wire, fr_n, fr_last, fr_got, fr_rx,
           sm_mem, sm_prev, sm_n, sm_slot, sm_len, sm_res, sm_rd,
           cn_pc, cn_peer, cn_read, cn_req, cn_sent, cn_last, cn_task,
           cn_st, cn_end,
           cd_kind, cd_val, cd_wire, cd_out,
           mt_cfg, mt_pc, mt_i, mt_log, mt_ret >>

workerVars == << state, pid, execution_count, pipe >>
pipeVars == << code_q, result_q >>
countVars == << sent, rcvd, cread, cwrote >>
clientVars == << pc, idx, target, code, res, got, note >>
poolVars == << built, daemon, id >>
shmVars == << active_requests, held, shm_pc, shm_slot, shm_res, shm_own >>
seccompVars == << sc_config, sc_filter, sc_last, sc_alive, sc_ret >>
childVars == << wm_pc, wm_net, wm_steps, wm_landlock, wm_frames, wm_result,
               wm_exit >>
\* everything that belongs to the worker pool and its request tasks
serviceVars == << workerVars, guard, pipeVars, child, procs, countVars,
                 clientVars, poolVars >>
fdVars == << fd_daemon, fd_child, fd_pc, fd_cpc >>
frameVars == << fr_dir, fr_wire, fr_n, fr_last, fr_got, fr_rx >>
mapVars == << sm_mem, sm_prev, sm_n, sm_slot, sm_len, sm_res, sm_rd >>
connVars == << cn_pc, cn_peer, cn_read, cn_req, cn_sent, cn_last, cn_task,
              cn_st, cn_end >>
codecVars == << cd_kind, cd_val, cd_wire, cd_out >>
mountVars == << mt_cfg, mt_pc, mt_i, mt_log, mt_ret >>
\* what the actions of one component leave alone: the other components
outsidePool == << shmVars, seccompVars, childVars, fdVars, frameVars,
                 mapVars, connVars, codecVars,
    mountVars >>
outsideShm == << serviceVars, seccompVars, childVars, fdVars, frameVars,
                mapVars, connVars, codecVars,
    mountVars >>
outsideSeccomp == << serviceVars, shmVars, childVars, fdVars, frameVars,
                    mapVars, connVars, codecVars,
    mountVars >>
outsideChild == << serviceVars, shmVars, seccompVars, fdVars, frameVars,
                  mapVars, connVars, codecVars,
    mountVars >>
outsideFds == << serviceVars, shmVars, seccompVars, childVars, frameVars,
                mapVars, connVars, codecVars,
    mountVars >>
outsideFrames == << serviceVars, shmVars, seccompVars, childVars, fdVars,
                   mapVars, connVars, codecVars,
    mountVars >>
outsideMap == << serviceVars, shmVars, seccompVars, childVars, fdVars,
                frameVars, connVars, codecVars,
    mountVars >>
outsideCodec == << serviceVars, shmVars, seccompVars, childVars, fdVars,
                  frameVars, mapVars, connVars, mountVars >>
outsideMount == << serviceVars, shmVars, seccompVars, childVars, fdVars,
                  frameVars, mapVars, connVars, codecVars >>
outsideConn == << shmVars, seccompVars, childVars, fdVars, frameVars,
                 mapVars, codecVars,
    mountVars >>

(* ------------------------------------------------------------------ *)
(* Values                                                              *)
(* ------------------------------------------------------------------ *)

NoWorker == 0 - 1
NoFrame == [ans |-> 0, nth |-> 0, code |-> "none", big |-> FALSE,
            timed_out |-> FALSE, late |-> FALSE, part |-> FALSE,
            exit_code |-> 0]

\* Result<ExecutionResult>: Ok(result) or Err(LeewardError::kind(why)).
NoRes == [ok |-> FALSE, kind |-> "none", why |-> "none", timed_out |-> FALSE,
          exit_code |-> 0]
Ok(f) == [ok |-> TRUE, kind |-> "none", why |-> "none", timed_out |-> f.timed_out,
          exit_code |-> f.exit_code]
Err(k, y) == [ok |-> FALSE, kind |-> k, why |-> y, timed_out |-> FALSE,
              exit_code |-> 0]

NoNote == [full |-> FALSE, exec_pid |-> NoPid, reached |-> FALSE,
           overran |-> FALSE, old_pid |-> NoPid]

NoChild == [pc |-> "exited", cur |-> NoFrame, lapsed |-> FALSE]
\* worker_main entered, isolation set-up not done yet
NewChild == [pc |-> "init", cur |-> NoFrame, lapsed |-> FALSE]
\* worker_main blocked in pipe.recv_code()
ReadyChild == [pc |-> "recv", cur |-> NoFrame, lapsed |-> FALSE]

\* impl Default for SeccompConfig
DefaultSeccompConfig == [notify_mode |-> TRUE, log_denials |-> TRUE]

\* the child has not exited
NoStatus == 0 - 1

\* no filter installed; no syscall made yet
NoFilter == [rules |-> {}, mismatch |-> "none", match |-> "none"]
NoSyscall == [nr |-> "none", result |-> "none"]

\* Option<ExecutionResult> and Option<String> of an ExecuteResponse.
NoResult == [present |-> FALSE, exit_code |-> 0, timed_out |-> FALSE]
NoError == << >>

\* A Response (protocol.rs:61-74); nth is the number of request frames the
\* connection had read when the response was written.
NoResponse == [type |-> "none", success |-> FALSE, result |-> NoResult,
               error |-> NoError, total |-> 0, idle |-> 0, busy |-> 0,
               nth |-> 0]

\* PoolStatus with all counters at 0, and the index of the loop.
NoStatusLoop == [i |-> 0, idle |-> 0, busy |-> 0, recycling |-> 0, dead |-> 0]

\* Mapped bytes are kept as extents: the bytes at [lo, hi) are the bytes of
\* src from its offset off on.  A source is the content the mapping had
\* before any write ("old"), the code of the n-th write_request ("code"), or
\* the four bytes of the u32 n ("len").
Extent(lo, hi, src, off) == [lo |-> lo, hi |-> hi, src |-> src, off |-> off]
OldBytes == [name |-> "old", val |-> 0]
CodeBytes(n) == [name |-> "code", val |-> n]
LenBytes(n) == [name |-> "len", val |-> n]

\* MappedSharedMemory::new: total_size
ArenaSize == REQUEST_SLOT_SIZE * MAX_SLOTS + RESPONSE_SLOT_SIZE * MAX_SLOTS

\* The mapping before any write.
FreshMap == { Extent(0, ArenaSize, OldBytes, 0) }

\* no message encoded or decoded yet; MessagePack's nil
NoMessage == [type |-> "none"]
Nil == [t |-> "nil", v |-> 0]

\* MountConfig::default(): no new root and no mounts
DefaultMountConfig ==
    [new_root |-> FALSE, ro_binds |-> << >>, rw_binds |-> << >>, tmpfs |-> << >>]

\* no SlotPair written to yet; no length read
NoSlot == 0 - 1
NoLen == 0 - 1

\* no read_response yet
NoRead == [slot |-> NoSlot, len |-> NoLen, res |-> "none", lo |-> 0, hi |-> 0]

\* A payload: len bytes whose content is named by sym.  No payload at all.
NoPayload == [len |-> 0 - 1, sym |-> "none"]
\* Result<Vec<u8>> of a recv that has not been called.
NoRecv == [ok |-> FALSE, why |-> "none", payload |-> NoPayload]

InFlight(c) == pc[c] \notin {"idle", "done"}

\* Numbers of requests a fresh pool may serve without incident in one step.
QuietRuns == (MaxExecutions - Headroom) .. (MaxExecutions - 1)

\* Failures of Worker::spawn: pipe2 fails (WorkerPipe::new), clone3 fails.
SpawnFailures == {0 - 1, 0 - 2}

\* What clone3 returns in the parent: the pid of the new child, which no
\* existing child (running, or dead and not waited for) has.  Pids are
\* interchangeable, so the least free one stands for any of them.
FreshPid == CHOOSE p \in Pids \ procs : \A q \in Pids \ procs : p <= q
SpawnOutcomes == (IF Pids \ procs = {} THEN {} ELSE {FreshPid}) \cup SpawnFailures
SpawnError(p) == IF p = 0 - 1 THEN [ok |-> FALSE, kind |-> "Io", why |-> "pipe2 failed",
                                    timed_out |-> FALSE, exit_code |-> 0]
                 ELSE [ok |-> FALSE, kind |-> "Namespace", why |-> "clone3 failed",
                       timed_out |-> FALSE, exit_code |-> 0]

(* ------------------------------------------------------------------ *)
(* Pieces of the code the actions are built from                       *)
(* ------------------------------------------------------------------ *)

\* A lock that never waits.
LockableAlways(w) == TRUE

\* parking_lot::Mutex::lock returns only when no other task holds the mutex.
Lockable(w) == guard[w] = NoClient

\* A test that turns away only workers that are Dead.
require_not_dead(s) == s # "Dead"

\* Worker::execute, `if self.state != WorkerState::Idle { return Err(..) }`:
\* the states the call goes on with.
require_idle(s) == s = "Idle"

\* An execute that does not count itself.
count_nothing(n) == n

\* Worker::execute: self.execution_count += 1
count_execution(n) == n + 1

\* A guard that is given up as soon as the code frame is sent.
guard_dropped(c) == NoClient

\* WorkerPool::execute, `{ let mut guard = worker.lock(); guard.execute(code)? }`:
\* who holds the worker's mutex while Worker::execute waits for the result.
guard_in_execute(c) == c

\* The threshold test with > for >=.
should_recycle_gt(w, max_executions) == execution_count[w] > max_executions

\* Worker::should_recycle
should_recycle(w, max_executions) == execution_count[w] >= max_executions

\* A recycle that forgets to reset the counter.
RecycledCountKept(n) == n

\* Worker::recycle: self.execution_count = 0
RecycledCount(n) == 0

\* A pool in which every worker gets the identifier 0.
NewIdZero(n) == 0

\* WorkerPool::new: Worker::new(id as u32, ..) for id in 0..num_workers
NewId(n) == n

\* A recycle that keeps the old pipe pair.
RecycledPipeKept(p) == p

\* Worker::recycle: self.pipe = None
RecycledPipe(p) == FALSE

\* A failed spawn that marks the worker Dead.
StateDeadAfterFailedSpawn(s) == "Dead"

\* Worker::spawn returning early with `?`: self.state is not assigned.
StateAfterFailedSpawn(s) == s

\* A child that writes its result frame twice.
send_result_twice(q, f) == Append(Append(q, f), f)

\* ChildPipe::send_result: one length prefix and one payload, i.e. one frame.
send_result(q, f) == Append(q, f)

\* A parent that writes its code frame twice.
send_code_twice(q, f) == Append(Append(q, f), f)

\* ParentPipe::send_code: one frame.
send_code(q, f) == Append(q, f)

\* ChildPipe::recv_code: `len > 1024 * 1024` is an error.
CodeTooLarge(k) == k = "huge"

\* ParentPipe::recv_result: `len > 10 * 1024 * 1024` is an error.
ResultTooLarge(f) == f.big

\* Command::new(python).arg("-c").arg(code).output(): Err when the
\* interpreter cannot be launched (a code with a NUL byte cannot be passed as
\* an argument), else the ExitStatus of the interpreter, whose code() is None
\* when a signal ended it.
NoExitCode == 0 - 1000
Launched(k) == k # "nul"
StatusCode(k) ==
    CASE k = "exit7" -> 7
      [] k = "crash" -> NoExitCode
      [] OTHER -> 0

\* execute_python: exit_code is -1 in the Err arm and
\* output.status.code().unwrap_or(-1) otherwise.
exit_code(k) ==
    IF ~Launched(k) THEN 0 - 1
    ELSE IF StatusCode(k) = NoExitCode THEN 0 - 1
    ELSE StatusCode(k)

\* execute_python: the ExecutionResult built for a finished interpreter run;
\* timed_out is the literal false in both return paths.
execute_python(cur, lapsed) ==
    [ans |-> cur.ans, nth |-> 0, code |-> cur.code, big |-> cur.code = "flood",
     timed_out |-> FALSE, late |-> lapsed, part |-> FALSE,
     exit_code |-> exit_code(cur.code)]

(* ------------------------------------------------------------------ *)
(* Initial state: every Worker as Worker::new makes it, no pool yet     *)
(* ------------------------------------------------------------------ *)

Init ==
    /\ state = [w \in Workers |-> "Dead"]
    /\ pid = [w \in Workers |-> NoPid]
    /\ execution_count = [w \in Workers |-> 0]
    /\ pipe = [w \in Workers |-> FALSE]
    /\ procs = {}
    /\ child = [w \in Workers |-> NoChild]
    /\ guard = [w \in Workers |-> NoClient]
    /\ code_q = [w \in Workers |-> << >>]
    /\ result_q = [w \in Workers |-> << >>]
    /\ sent = [w \in Workers |-> 0]
    /\ rcvd = [w \in Workers |-> 0]
    /\ cread = [w \in Workers |-> 0]
    /\ cwrote = [w \in Workers |-> 0]
    /\ pc = [c \in Clients |-> "idle"]
    /\ idx = [c \in Clients |-> 0]
    /\ target = [c \in Clients |-> NoWorker]
    /\ code = [c \in Clients |-> "none"]
    /\ res = [c \in Clients |-> NoRes]
    /\ got = [c \in Clients |-> NoFrame]
    /\ note = [c \in Clients |-> NoNote]
    /\ built = 0
    /\ daemon = "starting"
    /\ id = [w \in Workers |-> NoWorker]
    /\ active_requests = 0
    /\ held = 0
    /\ shm_pc = [t \in Threads |-> "idle"]
    /\ shm_slot = [t \in Threads |-> 0]
    /\ shm_res = [t \in Threads |-> "none"]
    /\ shm_own = [t \in Threads |-> NoSlot]
    /\ sc_config = DefaultSeccompConfig
    /\ sc_filter = NoFilter
    /\ sc_last = NoSyscall
    /\ sc_alive = TRUE
    /\ sc_ret = "none"
    /\ wm_pc = "namespaces"
    /\ wm_net = FALSE
    /\ wm_steps = << >>
    /\ wm_landlock = "none"
    /\ wm_frames = 0
    /\ wm_result = "none"
    /\ wm_exit = NoStatus
    /\ fd_daemon = {}
    /\ fd_child = [w \in Workers |-> {}]
    /\ fd_pc = [w \in Workers |-> "none"]
    /\ fd_cpc = [w \in Workers |-> "none"]
    /\ fr_dir = "code"
    /\ fr_wire = << >>
    /\ fr_n = 0
    /\ fr_last = NoPayload
    /\ fr_got = NoRecv
    /\ fr_rx = "open"
    /\ sm_mem = FreshMap
    /\ sm_prev = FreshMap
    /\ sm_n = 0
    /\ sm_slot = NoSlot
    /\ sm_len = 0
    /\ sm_res = "none"
    /\ sm_rd = NoRead
    /\ cn_pc = [k \in Conns |-> "none"]
    /\ cn_peer = [k \in Conns |-> "open"]
    /\ cn_read = [k \in Conns |-> 0]
    /\ cn_req = [k \in Conns |-> "none"]
    /\ cn_sent = [k \in Conns |-> 0]
    /\ cn_last = [k \in Conns |-> NoResponse]
    /\ cn_task = [k \in Conns |-> NoClient]
    /\ cn_st = [k \in Conns |-> NoStatusLoop]
    /\ cn_end = [k \in Conns |-> "none"]
    /\ cd_kind = "none"
    /\ cd_val = NoMessage
    /\ cd_wire = Nil
    /\ cd_out = NoMessage
    /\ mt_cfg = DefaultMountConfig
    /\ mt_pc = "config"
    /\ mt_i = 0
    /\ mt_log = << >>
    /\ mt_ret = "none"

(* ------------------------------------------------------------------ *)
(* WorkerPool::new                                                     *)
(* ------------------------------------------------------------------ *)

\* One iteration of the loop of WorkerPool::new: Worker::new, worker.spawn()?,
\* workers.push.  A failed spawn ends WorkerPool::new, and main, with the error.
PoolNew ==
    LET w == built IN
    /\ daemon = "starting"
    /\ built < NumWorkers
    /\ \E p \in SpawnOutcomes :
         IF p \in SpawnFailures
         THEN /\ state' = [state EXCEPT ![w] = StateAfterFailedSpawn(@)]
              /\ daemon' = "failed"
              /\ UNCHANGED << pid, pipe, child, procs, built, id >>
         ELSE /\ pid' = [pid EXCEPT ![w] = p]
              /\ procs' = procs \cup {p}
              /\ pipe' = [pipe EXCEPT ![w] = TRUE]
              /\ child' = [child EXCEPT ![w] = NewChild]
              /\ state' = [state EXCEPT ![w] = "Idle"]
              /\ built' = built + 1
              /\ id' = [id EXCEPT ![w] = NewId(built)]
              /\ daemon' = IF built + 1 = NumWorkers THEN "serving" ELSE "starting"
    /\ UNCHANGED << execution_count, guard, pipeVars, countVars, clientVars >>
    /\ UNCHANGED outsidePool

\* n requests served one after the other, each with code that runs to its end
\* in time: get_idle returns worker 0 every time, and every Worker::execute
\* sends one frame, reads one frame and counts one execution.
ServeQuietly(n) ==
    /\ daemon = "serving"
    /\ \A c \in Clients : pc[c] = "idle"
    /\ execution_count[0] = 0
    /\ state[0] = "Idle"
    /\ child[0] = ReadyChild
    /\ execution_count' = [execution_count EXCEPT ![0] = n]
    /\ sent' = [sent EXCEPT ![0] = n]
    /\ rcvd' = [rcvd EXCEPT ![0] = n]
    /\ cread' = [cread EXCEPT ![0] = n]
    /\ cwrote' = [cwrote EXCEPT ![0] = n]
    /\ UNCHANGED << state, pid, pipe, guard, pipeVars, child, procs,
                    clientVars, poolVars >>
    /\ UNCHANGED outsidePool

(* ------------------------------------------------------------------ *)
(* Request tasks: WorkerPool::execute                                  *)
(* ------------------------------------------------------------------ *)

\* handle_request calls pool.execute(code) for a new Execute request.  Tasks
\* are interchangeable: requests are numbered in the order they arrive.
Arrive(c) ==
    /\ daemon = "serving"
    /\ pc[c] = "idle"
    /\ \A d \in Clients : d < c => pc[d] # "idle"
    /\ pc' = [pc EXCEPT ![c] = "get_idle"]
    /\ idx' = [idx EXCEPT ![c] = 0]
    /\ note' = IF \A d \in Clients \ {c} : InFlight(d)
               THEN [d \in Clients |-> [note[d] EXCEPT !.full = TRUE]]
               ELSE note
    /\ UNCHANGED << workerVars, guard, pipeVars, child, procs, countVars,
                    target, code, res, got >>
    /\ UNCHANGED poolVars
    /\ UNCHANGED outsidePool

\* get_idle, one iteration of the for loop: lock, look at the state, unlock.
GetIdleLook(c) ==
    /\ pc[c] = "get_idle"
    /\ idx[c] < NumWorkers
    /\ Lockable(idx[c])
    /\ IF state[idx[c]] = "Idle"
       THEN /\ target' = [target EXCEPT ![c] = idx[c]]
            /\ pc' = [pc EXCEPT ![c] = "execute"]
            /\ idx' = idx
       ELSE /\ idx' = [idx EXCEPT ![c] = idx[c] + 1]
            /\ UNCHANGED << target, pc >>
    /\ UNCHANGED << workerVars, guard, pipeVars, child, procs, countVars,
                    code, res, got, note >>
    /\ UNCHANGED poolVars
    /\ UNCHANGED outsidePool

\* get_idle returned None: "no idle workers available".
GetIdleNone(c) ==
    /\ pc[c] = "get_idle"
    /\ idx[c] = NumWorkers
    /\ pc' = [pc EXCEPT ![c] = "done"]
    /\ res' = [res EXCEPT ![c] = Err("Execution", "no idle workers available")]
    /\ UNCHANGED << workerVars, guard, pipeVars, child, procs, countVars,
                    idx, target, code, got, note >>
    /\ UNCHANGED poolVars
    /\ UNCHANGED outsidePool

\* worker.lock(); guard.execute(code) up to and including send_code.  The
\* request's code k is first looked at here.
Execute(c, k) ==
    LET w == target[c] IN
    /\ pc[c] = "execute"
    /\ Lockable(w)
    /\ IF ~require_idle(state[w])
       THEN /\ res' = [res EXCEPT ![c] = Err("Execution", "worker is not idle")]
            /\ pc' = [pc EXCEPT ![c] = "done"]
            /\ UNCHANGED << state, guard, code_q, sent, note, code >>
       ELSE IF ~pipe[w]
       THEN /\ res' = [res EXCEPT ![c] =
                         Err("Execution", "worker pipe not initialized")]
            /\ pc' = [pc EXCEPT ![c] = "done"]
            /\ UNCHANGED << state, guard, code_q, sent, note, code >>
       ELSE /\ state' = [state EXCEPT ![w] = "Busy"]
            /\ note' = [note EXCEPT ![c].exec_pid = pid[w]]
            /\ IF child[w].pc = "exited"
               THEN \* write to a pipe nobody reads: EPIPE
                    /\ res' = [res EXCEPT ![c] = Err("Io", "broken pipe")]
                    /\ pc' = [pc EXCEPT ![c] = "done"]
                    /\ UNCHANGED << guard, code_q, sent, code >>
               ELSE /\ code_q' = [code_q EXCEPT ![w] =
                                    send_code(@, [NoFrame EXCEPT
                                                    !.ans = sent[w] + 1,
                                                    !.code = k])]
                    /\ sent' = [sent EXCEPT ![w] = @ + 1]
                    /\ guard' = [guard EXCEPT ![w] = guard_in_execute(c)]
                    /\ pc' = [pc EXCEPT ![c] = "recv_result"]
                    /\ code' = [code EXCEPT ![c] = k]
                    /\ res' = res
    /\ UNCHANGED << pid, execution_count, pipe, result_q, child, procs,
                    rcvd, cread, cwrote, idx, target, got >>
    /\ UNCHANGED poolVars
    /\ UNCHANGED outsidePool

\* guard.execute(code) from recv_result to its return; the guard is dropped.
RecvResult(c) ==
    LET w == target[c] IN
    /\ pc[c] = "recv_result"
    /\ result_q[w] # << >> \/ child[w].pc = "exited"
    /\ guard' = [guard EXCEPT ![w] = NoClient]
    /\ IF result_q[w] = << >>
       THEN \* read_exact on a pipe whose writer is gone: UnexpectedEof
            /\ res' = [res EXCEPT ![c] = Err("Io", "unexpected eof")]
            /\ pc' = [pc EXCEPT ![c] = "done"]
            /\ code' = [code EXCEPT ![c] = "none"]
            /\ UNCHANGED << state, execution_count, result_q, rcvd, got, note >>
       ELSE LET f == Head(result_q[w]) IN
            IF ResultTooLarge(f)
            THEN \* the length prefix is consumed, the payload stays in the pipe
                 /\ result_q' = [result_q EXCEPT ![w][1].part = TRUE]
                 /\ res' = [res EXCEPT ![c] = Err("Execution", "result too large")]
                 /\ pc' = [pc EXCEPT ![c] = "done"]
                 /\ code' = [code EXCEPT ![c] = "none"]
                 /\ UNCHANGED << state, execution_count, rcvd, got, note >>
            ELSE /\ result_q' = [result_q EXCEPT ![w] = Tail(@)]
                 /\ rcvd' = [rcvd EXCEPT ![w] = @ + 1]
                 /\ got' = [got EXCEPT ![c] = [f EXCEPT !.nth = rcvd[w] + 1]]
                 /\ execution_count' = [execution_count EXCEPT ![w] = count_execution(@)]
                 /\ state' = [state EXCEPT ![w] = "Idle"]
                 /\ note' = [note EXCEPT
                               ![c].reached = (execution_count[w] + 1 = MaxExecutions),
                               ![c].overran = f.late]
                 /\ pc' = [pc EXCEPT ![c] = "check_recycle"]
                 /\ UNCHANGED << res, code >>
    /\ UNCHANGED << pid, pipe, code_q, child, procs, sent, cread, cwrote,
                    idx, target >>
    /\ UNCHANGED poolVars
    /\ UNCHANGED outsidePool

\* The second worker.lock(): should_recycle(100), and recycle() up to its
\* call of spawn().
CheckRecycle(c) ==
    LET w == target[c] IN
    /\ pc[c] = "check_recycle"
    /\ Lockable(w)
    /\ IF should_recycle(w, MaxExecutions)
       THEN /\ state' = [state EXCEPT ![w] = "Recycling"]
            /\ child' = [child EXCEPT ![w] = NoChild]      \* SIGKILL
            /\ pipe' = [pipe EXCEPT ![w] = RecycledPipe(@)]
            /\ code_q' = [code_q EXCEPT ![w] = << >>]
            /\ result_q' = [result_q EXCEPT ![w] = << >>]
            /\ pid' = [pid EXCEPT ![w] = NoPid]
            /\ execution_count' = [execution_count EXCEPT ![w] = RecycledCount(@)]
            /\ note' = [note EXCEPT ![c].old_pid = pid[w]]
            /\ guard' = [guard EXCEPT ![w] = c]
            /\ pc' = [pc EXCEPT ![c] = "spawn"]
            /\ UNCHANGED << res, code, got >>
       ELSE /\ pc' = [pc EXCEPT ![c] = "done"]
            /\ res' = [res EXCEPT ![c] = Ok(got[c])]
            /\ code' = [code EXCEPT ![c] = "none"]
            /\ got' = [got EXCEPT ![c] = NoFrame]
            /\ UNCHANGED << workerVars, pipeVars, child, note, guard >>
    /\ UNCHANGED << procs, countVars, idx, target >>
    /\ UNCHANGED poolVars
    /\ UNCHANGED outsidePool

\* recycle(): self.spawn().
Spawn(c) ==
    LET w == target[c] IN
    /\ pc[c] = "spawn"
    /\ \E p \in SpawnOutcomes :
         IF p \in SpawnFailures
         THEN /\ state' = [state EXCEPT ![w] = StateAfterFailedSpawn(@)]
              /\ guard' = [guard EXCEPT ![w] = NoClient]
              /\ pc' = [pc EXCEPT ![c] = "done"]
              /\ res' = [res EXCEPT ![c] = SpawnError(p)]
              /\ code' = [code EXCEPT ![c] = "none"]
              /\ got' = [got EXCEPT ![c] = NoFrame]
              /\ UNCHANGED << pid, pipe, pipeVars, child, procs, countVars >>
         ELSE /\ pid' = [pid EXCEPT ![w] = p]
              /\ procs' = procs \cup {p}
              /\ pipe' = [pipe EXCEPT ![w] = TRUE]
              /\ code_q' = [code_q EXCEPT ![w] = << >>]
              /\ result_q' = [result_q EXCEPT ![w] = << >>]
              /\ child' = [child EXCEPT ![w] = NewChild]
              /\ sent' = [sent EXCEPT ![w] = 0]
              /\ rcvd' = [rcvd EXCEPT ![w] = 0]
              /\ cread' = [cread EXCEPT ![w] = 0]
              /\ cwrote' = [cwrote EXCEPT ![w] = 0]
              /\ state' = [state EXCEPT ![w] = "Idle"]
              /\ pc' = [pc EXCEPT ![c] = "recycled"]
              /\ UNCHANGED << guard, res, code, got >>
    /\ UNCHANGED << execution_count, idx, target, note >>
    /\ UNCHANGED poolVars
    /\ UNCHANGED outsidePool

\* recycle() returned Ok: the guard is dropped and execute returns Ok(result).
Recycled(c) ==
    LET w == target[c] IN
    /\ pc[c] = "recycled"
    /\ guard' = [guard EXCEPT ![w] = NoClient]
    /\ pc' = [pc EXCEPT ![c] = "done"]
    /\ res' = [res EXCEPT ![c] = Ok(got[c])]
    /\ code' = [code EXCEPT ![c] = "none"]
    /\ got' = [got EXCEPT ![c] = NoFrame]
    /\ UNCHANGED << workerVars, pipeVars, child, procs, countVars,
                    idx, target, note >>
    /\ UNCHANGED poolVars
    /\ UNCHANGED outsidePool

(* ------------------------------------------------------------------ *)
(* The child process: worker_main                                      *)
(* ------------------------------------------------------------------ *)

\* worker_main before its loop: namespaces, landlock, seccomp.  A failing
\* namespace or seccomp step returns the error and the child exits.
ChildInit(w) ==
    /\ child[w].pc = "init"
    /\ \E okay \in BOOLEAN :
         child' = [child EXCEPT ![w] = IF okay THEN ReadyChild ELSE NoChild]
    /\ UNCHANGED << workerVars, guard, pipeVars, procs, countVars,
                    pc, idx, target, code, res, got, note >>
    /\ UNCHANGED poolVars
    /\ UNCHANGED outsidePool

\* pipe.recv_code(): an oversized frame is an error and ends the loop.
ChildRecvCode(w) ==
    /\ child[w].pc = "recv"
    /\ code_q[w] # << >>
    /\ LET f == Head(code_q[w]) IN
         /\ code_q' = [code_q EXCEPT ![w] = Tail(@)]
         /\ IF CodeTooLarge(f.code)
            THEN /\ child' = [child EXCEPT ![w] = NoChild]
                 /\ cread' = cread
            ELSE /\ child' = [child EXCEPT ![w].pc = "run", ![w].cur = f]
                 /\ cread' = [cread EXCEPT ![w] = @ + 1]
    /\ UNCHANGED << workerVars, guard, result_q, procs, sent, rcvd, cwrote,
                    pc, idx, target, code, res, got, note >>
    /\ UNCHANGED poolVars
    /\ UNCHANGED outsidePool

\* The wall-clock ceiling (config.timeout) passes while the code still runs.
CeilingLapse(w) ==
    /\ child[w].pc = "run"
    /\ child[w].cur.code = "slow"
    /\ ~child[w].lapsed
    /\ child' = [child EXCEPT ![w].lapsed = TRUE]
    /\ UNCHANGED << workerVars, guard, pipeVars, procs, countVars,
                    pc, idx, target, code, res, got, note >>
    /\ UNCHANGED poolVars
    /\ UNCHANGED outsidePool

\* execute_python returns; the result is serialized and sent.
ChildFinish(w) ==
    /\ child[w].pc = "run"
    /\ child[w].cur.code = "slow" => child[w].lapsed
    /\ result_q' = [result_q EXCEPT ![w] =
                      send_result(@, execute_python(child[w].cur, child[w].lapsed))]
    /\ cwrote' = [cwrote EXCEPT ![w] = @ + 1]
    /\ child' = [child EXCEPT ![w] = ReadyChild]
    /\ UNCHANGED << workerVars, guard, code_q, procs, sent, rcvd, cread,
                    pc, idx, target, code, res, got, note >>
    /\ UNCHANGED poolVars
    /\ UNCHANGED outsidePool

\* The child is killed while it runs the code (seccomp kill, OOM killer).
ChildKilled(w) ==
    /\ child[w].pc = "run"
    /\ child' = [child EXCEPT ![w] = NoChild]
    /\ UNCHANGED << workerVars, guard, pipeVars, procs, countVars,
                    pc, idx, target, code, res, got, note >>
    /\ UNCHANGED poolVars
    /\ UNCHANGED outsidePool

(* ------------------------------------------------------------------ *)
(* SharedMemoryRegion: allocate_slot and free_slot                     *)
(* ------------------------------------------------------------------ *)

\* AtomicU32::fetch_add(1): the new value; the old one is what the call returns.
fetch_add(n) == IF n = U32Max THEN 0 ELSE n + 1

\* An undo that does nothing.
fetch_sub_nothing(n) == n

\* AtomicU32::fetch_sub(1): the new value, wrapping below zero.
fetch_sub(n) == IF n = 0 THEN U32Max ELSE n - 1

\* Numbers of slots a fresh arena may hand out in one step.
QuietFills == (MAX_SLOTS - SlotHeadroom) .. MAX_SLOTS

\* n calls of allocate_slot, one after the other, on a fresh arena: each finds
\* slot_id < MAX_SLOTS and hands out a SlotPair.
FillSlots(n) ==
    /\ active_requests = 0
    /\ held = 0
    /\ \A t \in Threads : shm_pc[t] = "idle" /\ shm_res[t] = "none"
    /\ active_requests' = n
    /\ held' = n
    /\ UNCHANGED << shm_pc, shm_slot, shm_res, shm_own >>
    /\ UNCHANGED outsideShm

\* allocate_slot, first statement: slot_id = active_requests.fetch_add(1).
AllocFetch(t) ==
    /\ shm_pc[t] = "idle"
    /\ shm_slot' = [shm_slot EXCEPT ![t] = active_requests]
    /\ active_requests' = fetch_add(active_requests)
    /\ shm_pc' = [shm_pc EXCEPT ![t] = "fetched"]
    /\ shm_res' = [shm_res EXCEPT ![t] = "none"]
    /\ UNCHANGED << held, shm_own >>
    /\ UNCHANGED outsideShm

\* allocate_slot, the rest: the bound check, the undo, the return.
AllocReturn(t) ==
    /\ shm_pc[t] = "fetched"
    /\ IF shm_slot[t] >= MAX_SLOTS
       THEN /\ active_requests' = fetch_sub(active_requests)
            /\ shm_res' = [shm_res EXCEPT ![t] = "full"]
            /\ UNCHANGED << held, shm_own >>
       ELSE /\ held' = held + 1
            /\ shm_res' = [shm_res EXCEPT ![t] = "ok"]
            /\ shm_own' = [shm_own EXCEPT ![t] = shm_slot[t]]
            /\ UNCHANGED active_requests
    /\ shm_pc' = [shm_pc EXCEPT ![t] = "idle"]
    /\ shm_slot' = [shm_slot EXCEPT ![t] = 0]
    /\ UNCHANGED outsideShm

\* The threads that hold the SlotPair they got last.
Owners == { t \in Threads : shm_own[t] # NoSlot }

\* free_slot(slot) for a SlotPair that was handed out: the one the thread
\* got last if it still has it, and otherwise one of the others.
FreeSlot(t) ==
    /\ shm_pc[t] = "idle"
    /\ held > 0
    /\ t \notin Owners => held > Cardinality(Owners)
    /\ active_requests' = fetch_sub(active_requests)
    /\ held' = held - 1
    /\ shm_own' = [shm_own EXCEPT ![t] = NoSlot]
    /\ shm_res' = [shm_res EXCEPT ![t] = "none"]
    /\ UNCHANGED << shm_pc, shm_slot >>
    /\ UNCHANGED outsideShm

ShmNext ==
    \/ \E n \in QuietFills : FillSlots(n)
    \/ \E t \in Threads : AllocFetch(t)
    \/ \E t \in Threads : AllocReturn(t)
    \/ \E t \in Threads : FreeSlot(t)

ShmSpec == Init /\ [][ShmNext]_vars

(* ------------------------------------------------------------------ *)
(* SeccompConfig: the syscall filter worker_main installs              *)
(* ------------------------------------------------------------------ *)

\* default_python_syscalls()
default_python_syscalls ==
    { "read", "write", "close", "fstat", "lseek", "mmap", "mprotect", "munmap",
      "brk", "rt_sigaction", "rt_sigprocmask", "ioctl", "access", "dup", "dup2",
      "getpid", "getuid", "getgid", "geteuid", "getegid", "fcntl", "openat",
      "newfstatat", "exit", "exit_group", "futex", "getrandom",
      "clock_gettime", "clock_nanosleep" }

\* Some syscalls that are not on the list.
OtherSyscalls == { "execve", "socket", "connect", "ptrace", "mount", "clone",
                   "kill", "unlink" }

Syscalls == default_python_syscalls \cup OtherSyscalls

SeccompConfigs == [notify_mode : BOOLEAN, log_denials : BOOLEAN]

\* build_filter: `if self.log_denials { Log } else { KillThread }`
default_action(config) == IF config.log_denials THEN "Log" ELSE "KillThread"

\* build_filter: one rule without conditions per allowed syscall, the default
\* action for syscalls without a rule, Allow for syscalls with one.
build_filter(config) ==
    [rules |-> default_python_syscalls,
     mismatch |-> default_action(config),
     match |-> "Allow"]

\* The action the installed program returns for syscall nr.
FilterAction(filter, nr) ==
    IF nr \in filter.rules THEN filter.match ELSE filter.mismatch

\* What the kernel does with the syscall for each returned action:
\* SECCOMP_RET_ALLOW runs it, SECCOMP_RET_LOG logs it and runs it,
\* SECCOMP_RET_KILL_THREAD kills the calling thread.
KernelDoes(action) ==
    CASE action = "Allow" -> "runs"
      [] action = "Log" -> "runs"
      [] action = "KillThread" -> "killed"
      [] OTHER -> "denied"

\* A SeccompConfig other than the default is built.
Configure(config) ==
    /\ sc_filter = NoFilter
    /\ sc_config = DefaultSeccompConfig
    /\ config # DefaultSeccompConfig
    /\ sc_config' = config
    /\ UNCHANGED << sc_filter, sc_last, sc_alive, sc_ret >>
    /\ UNCHANGED outsideSeccomp

\* SeccompConfig::apply, its last statement: `Ok(None)`, whatever the
\* configuration.
apply_returns(config) == "Ok(None)"

\* SeccompConfig::apply: build the filter, compile it, install it and return.
SeccompApply ==
    /\ sc_filter = NoFilter
    /\ sc_filter' = build_filter(sc_config)
    /\ sc_ret' = apply_returns(sc_config)
    /\ UNCHANGED << sc_config, sc_last, sc_alive >>
    /\ UNCHANGED outsideSeccomp

\* The filtered process makes syscall nr.
Syscall(nr) ==
    /\ sc_filter # NoFilter
    /\ sc_alive
    /\ LET did == KernelDoes(FilterAction(sc_filter, nr)) IN
         /\ sc_last' = [nr |-> nr, result |-> did]
         /\ sc_alive' = (did # "killed")
    /\ UNCHANGED << sc_config, sc_filter, sc_ret >>
    /\ UNCHANGED outsideSeccomp

SeccompNext ==
    \/ \E config \in SeccompConfigs : Configure(config)
    \/ SeccompApply
    \/ \E nr \in Syscalls : Syscall(nr)

SeccompSpec == Init /\ [][SeccompNext]_vars

(* ------------------------------------------------------------------ *)
(* One cloned child: clone_worker's child branch and worker_main       *)
(* ------------------------------------------------------------------ *)

\* How LandlockConfig::apply can come out: one of its `?` returns an error,
\* or restrict_self reports a RulesetStatus.
LandlockErrors == { "ruleset failed", "open failed", "add_rule failed",
                    "restrict_self failed" }
RulesetStatuses == { "NotEnforced", "PartiallyEnforced", "FullyEnforced" }
LandlockOutcomes == LandlockErrors \cup RulesetStatuses

\* LandlockConfig::apply: Err from the `?`s; Ok(()) after the match on
\* status.ruleset, whose three arms only log.
landlock_apply(out) == IF out \in LandlockErrors THEN "Err" ELSE "Ok"

\* worker_main, `match landlock.apply()`: Ok logs, Err warns; both go on.
AfterLandlock(r) == "seccomp"

\* clone_worker, child branch: drop(child_fn()); libc::_exit(0).
exit_status(r) == 0

\* The SandboxConfig of the child allows the network.
ChildConfigure ==
    /\ wm_pc = "namespaces"
    /\ ~wm_net
    /\ wm_net' = TRUE
    /\ UNCHANGED << wm_pc, wm_steps, wm_landlock, wm_frames, wm_result, wm_exit >>
    /\ UNCHANGED outsideChild

\* Step 1: namespace_config.enter()?
EnterNamespaces ==
    /\ wm_pc = "namespaces"
    /\ \E okay \in BOOLEAN :
         IF okay
         THEN /\ wm_steps' = Append(wm_steps, "namespaces")
              /\ wm_pc' = "landlock"
              /\ UNCHANGED << wm_result, wm_exit >>
         ELSE /\ wm_pc' = "exited"
              /\ wm_result' = "Err"
              /\ wm_exit' = exit_status("Err")
              /\ UNCHANGED wm_steps
    /\ UNCHANGED << wm_net, wm_landlock, wm_frames >>
    /\ UNCHANGED outsideChild

\* Step 2: landlock.apply() and the match on its result.
LandlockApply ==
    /\ wm_pc = "landlock"
    /\ \E out \in LandlockOutcomes :
         /\ wm_landlock' = out
         /\ wm_steps' = IF landlock_apply(out) = "Ok"
                        THEN Append(wm_steps, "landlock")
                        ELSE wm_steps
         /\ wm_pc' = AfterLandlock(landlock_apply(out))
         /\ IF AfterLandlock(landlock_apply(out)) = "exited"
            THEN wm_result' = "Err" /\ wm_exit' = exit_status("Err")
            ELSE UNCHANGED << wm_result, wm_exit >>
    /\ UNCHANGED << wm_net, wm_frames >>
    /\ UNCHANGED outsideChild

\* Step 3: seccomp.apply()?
SeccompStep ==
    /\ wm_pc = "seccomp"
    /\ \E okay \in BOOLEAN :
         IF okay
         THEN /\ wm_steps' = Append(wm_steps, "seccomp")
              /\ wm_pc' = "loop"
              /\ UNCHANGED << wm_result, wm_exit >>
         ELSE /\ wm_pc' = "exited"
              /\ wm_result' = "Err"
              /\ wm_exit' = exit_status("Err")
              /\ UNCHANGED wm_steps
    /\ UNCHANGED << wm_net, wm_landlock, wm_frames >>
    /\ UNCHANGED outsideChild

\* One turn of the loop: recv_code, execute_python, send_result.
LoopServe ==
    /\ wm_pc = "loop"
    /\ wm_frames < MaxFrames
    /\ wm_frames' = wm_frames + 1
    /\ UNCHANGED << wm_pc, wm_net, wm_steps, wm_landlock, wm_result, wm_exit >>
    /\ UNCHANGED outsideChild

\* recv_code, to_vec or send_result fails: break; worker_main returns Ok(()).
LoopBreak ==
    /\ wm_pc = "loop"
    /\ wm_pc' = "exited"
    /\ wm_result' = "Ok"
    /\ wm_exit' = exit_status("Ok")
    /\ UNCHANGED << wm_net, wm_steps, wm_landlock, wm_frames >>
    /\ UNCHANGED outsideChild

ChildNext ==
    \/ ChildConfigure
    \/ EnterNamespaces
    \/ LandlockApply
    \/ SeccompStep
    \/ LoopServe
    \/ LoopBreak

ChildSpec == Init /\ [][ChildNext]_vars

(* ------------------------------------------------------------------ *)
(* Pipe ends: who holds which end of a worker's two pipes              *)
(* ------------------------------------------------------------------ *)

\* WorkerPipe::split: ParentPipe { code_tx, result_rx },
\* ChildPipe { code_rx, result_tx }.
ParentEnds(w) == { << w, "code_tx" >>, << w, "result_rx" >> }
ChildEnds(w) == { << w, "code_rx" >>, << w, "result_tx" >> }
PipeEnds(w) == ParentEnds(w) \cup ChildEnds(w)

\* clone3 without CLONE_FILES: the child starts with a copy of every
\* descriptor open in the daemon.
ClonedFds(fds) == fds

\* What the child closes before it serves: worker_main and clone_worker's
\* child branch close nothing.
ChildClosed(w, fds) == {}

\* The daemon process, among processes named by their worker's index.
TheDaemon == 0 - 1

\* Every process that holds a pipe end: the daemon and the live children.
Holders(e) ==
    (IF e \in fd_daemon THEN {TheDaemon} ELSE {}) \cup
    { w \in Workers : e \in fd_child[w] }

\* A read of worker w's code pipe returns end-of-file only when no process
\* holds the write end.
CodeEof(w) == Holders(<< w, "code_tx" >>) = {}

\* Worker::spawn, `WorkerPipe::new()?` and split(): the daemon holds all four
\* ends.  WorkerPool::new spawns the workers one after the other.
FdPipes(w) ==
    /\ fd_pc[w] = "none"
    /\ \A v \in Workers : v < w => fd_pc[v] \notin {"none", "piped", "cloned"}
    /\ fd_daemon' = fd_daemon \cup PipeEnds(w)
    /\ fd_pc' = [fd_pc EXCEPT ![w] = "piped"]
    /\ UNCHANGED << fd_child, fd_cpc >>
    /\ UNCHANGED outsideFds

\* clone_worker: clone3 returns in both processes.
FdClone(w) ==
    /\ fd_pc[w] = "piped"
    /\ fd_child' = [fd_child EXCEPT ![w] =
                      ClonedFds(fd_daemon) \ ChildClosed(w, ClonedFds(fd_daemon))]
    /\ fd_cpc' = [fd_cpc EXCEPT ![w] = "reading"]
    /\ fd_pc' = [fd_pc EXCEPT ![w] = "cloned"]
    /\ UNCHANGED fd_daemon
    /\ UNCHANGED outsideFds

\* clone_worker returns in the parent: child_fn, which owns the ChildPipe, is
\* dropped; spawn stores the ParentPipe in self.pipe.
FdSpawnReturn(w) ==
    /\ fd_pc[w] = "cloned"
    /\ fd_daemon' = fd_daemon \ ChildEnds(w)
    /\ fd_pc' = [fd_pc EXCEPT ![w] = "spawned"]
    /\ UNCHANGED << fd_child, fd_cpc >>
    /\ UNCHANGED outsideFds

\* The daemon closes its ends of worker w's pipes (the ParentPipe is dropped).
FdDaemonClose(w) ==
    /\ fd_pc[w] = "spawned"
    /\ fd_daemon' = fd_daemon \ ParentEnds(w)
    /\ fd_pc' = [fd_pc EXCEPT ![w] = "closed"]
    /\ UNCHANGED << fd_child, fd_cpc >>
    /\ UNCHANGED outsideFds

\* worker_main, pipe.recv_code(): the read returns end-of-file and the child
\* exits, or it blocks for as long as some process holds the write end.
FdChildRead(w) ==
    /\ fd_cpc[w] \in {"reading", "blocked"}
    /\ fd_cpc[w] = "blocked" => CodeEof(w)
    /\ IF CodeEof(w)
       THEN /\ fd_cpc' = [fd_cpc EXCEPT ![w] = "exited"]
            /\ fd_child' = [fd_child EXCEPT ![w] = {}]
       ELSE /\ fd_cpc' = [fd_cpc EXCEPT ![w] = "blocked"]
            /\ UNCHANGED fd_child
    /\ UNCHANGED << fd_daemon, fd_pc >>
    /\ UNCHANGED outsideFds

\* The daemon writes a code frame and the child reads it: execute_python
\* starts the interpreter, which inherits no pipe end (O_CLOEXEC).
FdRunCode(w) ==
    /\ fd_cpc[w] \in {"reading", "blocked"}
    /\ fd_pc[w] = "spawned"
    /\ << w, "code_tx" >> \in fd_daemon
    /\ fd_cpc' = [fd_cpc EXCEPT ![w] = "running"]
    /\ UNCHANGED << fd_daemon, fd_child, fd_pc >>
    /\ UNCHANGED outsideFds

\* The interpreter has finished and the result is sent: back to recv_code.
FdRunDone(w) ==
    /\ fd_cpc[w] = "running"
    /\ fd_cpc' = [fd_cpc EXCEPT ![w] = "reading"]
    /\ UNCHANGED << fd_daemon, fd_child, fd_pc >>
    /\ UNCHANGED outsideFds

\* The child is killed: the kernel closes all its descriptors.
FdChildKilled(w) ==
    /\ fd_cpc[w] \in {"reading", "blocked", "running"}
    /\ fd_cpc' = [fd_cpc EXCEPT ![w] = "killed"]
    /\ fd_child' = [fd_child EXCEPT ![w] = {}]
    /\ UNCHANGED << fd_daemon, fd_pc >>
    /\ UNCHANGED outsideFds

FdNext ==
    \/ \E w \in Workers : FdPipes(w)
    \/ \E w \in Workers : FdClone(w)
    \/ \E w \in Workers : FdSpawnReturn(w)
    \/ \E w \in Workers : FdDaemonClose(w)
    \/ \E w \in Workers : FdChildRead(w)
    \/ \E w \in Workers : FdRunCode(w)
    \/ \E w \in Workers : FdRunDone(w)
    \/ \E w \in Workers : FdChildKilled(w)

FdSpec == Init /\ [][FdNext]_vars

(* ------------------------------------------------------------------ *)
(* One pipe, byte for byte: send_code / recv_code, send_result /       *)
(* recv_result                                                         *)
(* ------------------------------------------------------------------ *)

\* The limit the receiver of each direction applies.
FrameMax(dir) == IF dir = "code" THEN MaxCodeFrame ELSE MaxResultFrame

\* Payload lengths: around zero, around the byte boundaries of the length
\* prefix and around the two limits.  All are far below 2^32, so that
\* `len() as u32` is the length itself.
FrameLens ==
    (0 .. Slack)
    \cup ((256 - Slack) .. (256 + Slack))
    \cup ((65536 - Slack) .. (65536 + Slack))
    \cup ((MaxCodeFrame - Slack) .. (MaxCodeFrame + Slack))
    \cup ((MaxResultFrame - Slack) .. (MaxResultFrame + Slack))

\* Two contents for every length.
FrameBodies == { "a", "b" }
Payloads == [len : FrameLens, sym : FrameBodies]

\* The four bytes least significant first.
to_le_bytes(n) ==
    << n % 256, (n \div 256) % 256, (n \div 65536) % 256, n \div 16777216 >>

\* u32::to_be_bytes: the four bytes, most significant first.
to_be_bytes(n) ==
    << n \div 16777216, (n \div 65536) % 256, (n \div 256) % 256, n % 256 >>

\* u32::from_be_bytes
from_be_bytes(b) == ((b[1] * 256 + b[2]) * 256 + b[3]) * 256 + b[4]

\* send_code, send_result: neither compares the length with anything.
SenderRefuses(dir, payload) == FALSE

\* send_code, send_result: write_all(len_bytes), write_all(payload), flush.
FrameOf(payload) == [prefix |-> to_be_bytes(payload.len), body |-> payload]

\* read_exact(&mut buf[..len]) on the bytes that follow the prefix: the first
\* len bytes of the body, or an error when the body ends before that.
read_exact(body, len) ==
    IF len > body.len
    THEN [ok |-> FALSE, why |-> "unexpected eof", payload |-> NoPayload]
    ELSE [ok |-> TRUE, why |-> "none",
          payload |-> [len |-> len, sym |-> body.sym]]

\* recv_code, recv_result: read the prefix, compare it with the limit, read
\* that many bytes.
recv_frame(f, max) ==
    LET len == from_be_bytes(f.prefix) IN
    IF len > max
    THEN [ok |-> FALSE, why |-> "too large", payload |-> NoPayload]
    ELSE read_exact(f.body, len)

\* ChildPipe::recv_code
recv_code(f) == recv_frame(f, MaxCodeFrame)

\* ParentPipe::recv_result
recv_result(f) == recv_frame(f, MaxResultFrame)

\* The pipe looked at is a result pipe.
FrameUseResult ==
    /\ fr_dir = "code"
    /\ fr_n = 0
    /\ fr_dir' = "result"
    /\ UNCHANGED << fr_wire, fr_n, fr_last, fr_got, fr_rx >>
    /\ UNCHANGED outsideFrames

\* The sender is handed a payload: Worker::execute calls send_code, or
\* worker_main calls send_result.  Code and result frames alternate, so the
\* previous frame has been read; after a failed recv the worker stays Busy
\* and no send is attempted again.
FrameSend(payload) ==
    /\ fr_rx = "open"
    /\ fr_wire = << >>
    /\ fr_n < MaxFrames
    /\ fr_n' = fr_n + 1
    /\ fr_last' = payload
    /\ fr_wire' = IF SenderRefuses(fr_dir, payload)
                  THEN fr_wire
                  ELSE Append(fr_wire, FrameOf(payload))
    /\ fr_got' = NoRecv
    /\ UNCHANGED << fr_dir, fr_rx >>
    /\ UNCHANGED outsideFrames

\* The receiver's recv_code (worker_main's loop) or recv_result
\* (Worker::execute).  A failed recv ends the loop, or returns from execute
\* with the worker left Busy: the receiver reads no further frame.
FrameRecv ==
    /\ fr_rx = "open"
    /\ fr_wire # << >>
    /\ LET r == IF fr_dir = "code" THEN recv_code(Head(fr_wire))
                ELSE recv_result(Head(fr_wire)) IN
         /\ fr_got' = r
         /\ fr_rx' = IF r.ok THEN "open" ELSE "aborted"
         /\ fr_wire' = IF r.ok THEN Tail(fr_wire) ELSE fr_wire
    /\ UNCHANGED << fr_dir, fr_n, fr_last >>
    /\ UNCHANGED outsideFrames

FrameNext ==
    \/ FrameUseResult
    \/ \E payload \in Payloads : FrameSend(payload)
    \/ FrameRecv

FrameSpec == Init /\ [][FrameNext]_vars

(* ------------------------------------------------------------------ *)
(* MappedSharedMemory: write_request                                   *)
(* ------------------------------------------------------------------ *)

Min(a, b) == IF a < b THEN a ELSE b
Max(a, b) == IF a > b THEN a ELSE b

\* The parts of extent x that lie outside [lo, hi).
Outside(x, lo, hi) ==
    (IF x.lo < lo
     THEN { Extent(x.lo, Min(x.hi, lo), x.src, x.off) }
     ELSE {})
    \cup
    (IF x.hi > hi
     THEN { Extent(Max(x.lo, hi), x.hi, x.src, x.off + (Max(x.lo, hi) - x.lo)) }
     ELSE {})

\* copy_nonoverlapping(src, base + at, n), and a store through a pointer:
\* the n bytes from at on become the first n bytes of src.
Store(mem, at, n, src) ==
    IF n = 0 THEN mem
    ELSE (UNION { Outside(x, at, at + n) : x \in mem })
         \cup { Extent(at, at + n, src, 0) }

\* The n bytes from at on, with positions counted from at.
Load(mem, at, n) ==
    { Extent(Max(x.lo, at) - at, Min(x.hi, at + n) - at, x.src,
             x.off + (Max(x.lo, at) - x.lo)) :
        x \in { y \in mem : y.lo < at + n /\ y.hi > at } }

\* The first n bytes of src, as a Load returns them.
Bytes(src, n) == IF n = 0 THEN {} ELSE { Extent(0, n, src, 0) }

\* `*(ptr.cast::<u32>())`: the u32 stored at at, if the four bytes there are
\* those of one stored u32.
LoadU32(mem, at) ==
    LET b == Load(mem, at, 4) IN
    IF \E n \in 0 .. (REQUEST_SLOT_SIZE + Slack) : b = Bytes(LenBytes(n), 4)
    THEN (CHOOSE x \in b : TRUE).src.val
    ELSE NoLen

\* How many bytes of src a set of extents holds.
RECURSIVE CountBytes(_, _)
CountBytes(b, src) ==
    IF b = {} THEN 0
    ELSE LET x == CHOOSE y \in b : TRUE IN
         (IF x.src = src THEN x.hi - x.lo ELSE 0) + CountBytes(b \ {x}, src)

\* allocate_slot: the SlotPair of slot_id.
SlotPair(slot_id) ==
    [slot_id |-> slot_id,
     request_offset |-> 0 + slot_id * REQUEST_SLOT_SIZE,
     response_offset |-> REQUEST_SLOT_SIZE * MAX_SLOTS
                         + slot_id * RESPONSE_SLOT_SIZE]

\* Slots written to: the first two and the last.
SlotIds == { 0, 1, MAX_SLOTS - 1 }

\* Lengths of code: around zero, around the size of the prefix and around
\* the size of a request slot.
CodeLens ==
    (0 .. Slack)
    \cup ((4 - Slack) .. (4 + Slack))
    \cup ((REQUEST_SLOT_SIZE - Slack) .. (REQUEST_SLOT_SIZE + Slack))

\* write_request: `if code.len() > REQUEST_SLOT_SIZE { return Err(..) }`
RequestTooLarge(len) == len > REQUEST_SLOT_SIZE

\* write_request, the unsafe block: the code is copied to dest, then the
\* length is stored through dest.cast::<u32>(), that is at dest as well.
write_request(mem, slot, bytes, len) ==
    LET dest == slot.request_offset IN
    Store(Store(mem, dest, len, bytes), dest, 4, LenBytes(len))

\* Reading a request slot as [length][payload], the layout read_response
\* reads a response slot in: the u32 at the slot's start, then that many
\* bytes from 4 bytes after it.
ReadLength(mem, slot) == LoadU32(mem, slot.request_offset)
ReadPayload(mem, slot, len) == Load(mem, slot.request_offset + 4, len)

\* A call write_request(&slot, code) with slot = SlotPair(slot_id) and
\* code.len() = len.
WriteRequest(slot_id, len) ==
    /\ sm_n < MaxWrites
    /\ sm_n' = sm_n + 1
    /\ sm_slot' = slot_id
    /\ sm_len' = len
    /\ sm_prev' = sm_mem
    /\ IF RequestTooLarge(len)
       THEN /\ sm_res' = "Err"
            /\ sm_mem' = sm_mem
       ELSE /\ sm_res' = "Ok"
            /\ sm_mem' = write_request(sm_mem, SlotPair(slot_id),
                                       CodeBytes(sm_n + 1), len)
    /\ UNCHANGED sm_rd
    /\ UNCHANGED outsideMap

\* Lengths a response slot's prefix can hold: around zero, around the
\* largest payload that fits behind the prefix, and around the size of a
\* response slot.
ResponseLens ==
    (0 .. Slack)
    \cup ((RESPONSE_SLOT_SIZE - 4 - Slack) .. (RESPONSE_SLOT_SIZE - 4 + Slack))
    \cup ((RESPONSE_SLOT_SIZE - Slack) .. (RESPONSE_SLOT_SIZE + Slack))

\* read_response: `if len as usize > RESPONSE_SLOT_SIZE { return Err(..) }`
ResponseTooLarge(len) == len > RESPONSE_SLOT_SIZE

\* read_response, the bytes it reads when the prefix holds len: the u32 at
\* src, and for an accepted len the len bytes from src.add(4) on.
read_response(slot, len) ==
    LET src == slot.response_offset IN
    IF ResponseTooLarge(len)
    THEN [res |-> "Err", lo |-> src, hi |-> src + 4]
    ELSE [res |-> "Ok", lo |-> src, hi |-> src + 4 + len]

\* What a read of the bytes [lo, hi) of the mapping can do: inside the
\* mapping it returns them; past its end the behaviour is undefined, and the
\* read returns whatever is mapped there or the process gets SIGSEGV.
ReadOutcomes(r) ==
    IF r.hi <= ArenaSize THEN { r.res } ELSE { r.res, "SIGSEGV" }

\* A call read_response(&slot) with slot = SlotPair(slot_id), when the
\* slot's first four bytes hold len.
ReadResponse(slot_id, len) ==
    LET r == read_response(SlotPair(slot_id), len) IN
    /\ \E outcome \in ReadOutcomes(r) :
         sm_rd' = [slot |-> slot_id, len |-> len, res |-> outcome,
                   lo |-> r.lo, hi |-> r.hi]
    /\ UNCHANGED << sm_mem, sm_prev, sm_n, sm_slot, sm_len, sm_res >>
    /\ UNCHANGED outsideMap

MapNext ==
    \/ \E slot_id \in SlotIds, len \in CodeLens : WriteRequest(slot_id, len)
    \/ \E slot_id \in SlotIds, len \in ResponseLens : ReadResponse(slot_id, len)

MapSpec == Init /\ [][MapNext]_vars

(* ------------------------------------------------------------------ *)
(* Frontend server: run, handle_connection, handle_request             *)
(* ------------------------------------------------------------------ *)

\* What the next frame of a connection's stream can be: a well-formed
\* request (Execute with code, Execute with code: None, Status, Ping), bytes
\* that do not decode to a Request, a frame whose payload ends before the
\* length its prefix announces, or the end of the stream.
RequestKinds == { "Execute", "NoCode", "Status", "Ping" }
FrameKinds == RequestKinds \cup { "garbage", "short", "eof" }

\* Display of LeewardError (error.rs): the diagnostic names the variant and
\* carries its message.
to_string(r) == << r.kind, r.why >>

\* A handler that reports every execution as a success.
ExecuteResponseAlwaysOk(r) ==
    [NoResponse EXCEPT !.type = "Execute", !.success = TRUE,
                       !.result = [present |-> TRUE, exit_code |-> r.exit_code,
                                   timed_out |-> r.timed_out]]

\* handle_request, `match pool.execute(code).await`.
ExecuteResponse(r) ==
    IF r.ok
    THEN [NoResponse EXCEPT !.type = "Execute", !.success = TRUE,
                            !.result = [present |-> TRUE,
                                        exit_code |-> r.exit_code,
                                        timed_out |-> r.timed_out]]
    ELSE [NoResponse EXCEPT !.type = "Execute", !.success = FALSE,
                            !.error = to_string(r)]

\* handle_request, `None => return Response::Execute(..)`.
NoCodeResponse ==
    [NoResponse EXCEPT !.type = "Execute", !.success = FALSE,
                       !.error = << "none", "no code provided" >>]

\* A handler that answers Ping with an Error.
PingResponseError == [NoResponse EXCEPT !.type = "Error"]

\* handle_request, `Request::Ping => Response::Pong`.
PingResponse == [NoResponse EXCEPT !.type = "Pong"]

\* A status that counts every worker as busy.
CountAllBusy(st, s) == [st EXCEPT !.i = @ + 1, !.busy = @ + 1]

\* WorkerPool::status, the match inside the loop.
Count(st, s) ==
    CASE s = "Idle" -> [st EXCEPT !.i = @ + 1, !.idle = @ + 1]
      [] s = "Busy" -> [st EXCEPT !.i = @ + 1, !.busy = @ + 1]
      [] s = "Recycling" -> [st EXCEPT !.i = @ + 1, !.recycling = @ + 1]
      [] OTHER -> [st EXCEPT !.i = @ + 1, !.dead = @ + 1]

\* handle_request, Request::Status arm; total is self.workers.len().
StatusResponse(st) ==
    [NoResponse EXCEPT !.type = "Status", !.total = built,
                       !.idle = st.idle, !.busy = st.busy]

\* A loop that goes on to the next frame after a frame it could not decode.
AfterDecodeErrorRead == "read"

\* handle_connection, `protocol::decode(&buf[..len])?`: the error is
\* returned and the stream is dropped.
AfterDecodeError == "closed"

\* A write that succeeds whether or not anybody is there to read.
WriteAlwaysOk(peer) == TRUE

\* stream.write_all: the frame is written when the client's end is open and
\* fails with EPIPE when it is gone.
WriteOk(peer) == peer = "open"

\* The request tasks no connection has used yet; the next one.
FreeTasks ==
    { c \in Clients : pc[c] = "idle" /\ \A k \in Conns : cn_task[k] # c }
NextTask == CHOOSE c \in FreeTasks : \A d \in FreeTasks : c <= d

\* handle_connection, from encode to the end of the loop body: the response
\* is written and the loop goes back to read, or write_all fails and the
\* error is returned.
ConnWrite(k, resp, n) ==
    IF WriteOk(cn_peer[k])
    THEN /\ cn_sent' = [cn_sent EXCEPT ![k] = @ + 1]
         /\ cn_last' = [cn_last EXCEPT ![k] = [resp EXCEPT !.nth = n]]
         /\ cn_pc' = [cn_pc EXCEPT ![k] = "read"]
         /\ cn_end' = cn_end
    ELSE /\ cn_pc' = [cn_pc EXCEPT ![k] = "closed"]
         /\ cn_end' = [cn_end EXCEPT ![k] = "write error"]
         /\ UNCHANGED << cn_sent, cn_last >>

\* server::run: listener.accept() and tokio::spawn(handle_connection), once
\* the pool exists.  Connections are interchangeable: they are numbered in
\* the order they are accepted.
Accept(k) ==
    /\ daemon = "serving"
    /\ cn_pc[k] = "none"
    /\ \A j \in Conns : j < k => cn_pc[j] # "none"
    /\ cn_pc' = [cn_pc EXCEPT ![k] = "read"]
    /\ UNCHANGED << cn_peer, cn_read, cn_req, cn_sent, cn_last, cn_task,
                    cn_st, cn_end >>
    /\ UNCHANGED serviceVars
    /\ UNCHANGED outsideConn

\* The client closes its end of the connection.
ClientClose(k) ==
    /\ cn_pc[k] \notin { "none", "closed" }
    /\ cn_peer[k] = "open"
    /\ cn_peer' = [cn_peer EXCEPT ![k] =
                     IF cn_pc[k] = "execute" THEN "gone mid-call" ELSE "gone"]
    /\ UNCHANGED << cn_pc, cn_read, cn_req, cn_sent, cn_last, cn_task,
                    cn_st, cn_end >>
    /\ UNCHANGED serviceVars
    /\ UNCHANGED outsideConn

\* handle_connection, one turn of the loop up to the point where the request
\* needs the pool: read the prefix, read the payload, decode, and for
\* requests that need no worker also handle_request, encode and write.
\* Frames the client sent before it closed its end are still read.
ConnRead(k, kind) ==
    /\ cn_pc[k] = "read"
    /\ kind # "eof" => cn_read[k] < MaxRequests
    /\ kind \in { "eof", "short" } => cn_peer[k] # "open"
    /\ kind = "Execute" => FreeTasks # {}
    /\ cn_read' = [cn_read EXCEPT ![k] = IF kind = "eof" THEN @ ELSE @ + 1]
    /\ cn_req' = [cn_req EXCEPT ![k] = kind]
    /\ CASE kind = "eof" ->
              \* read_exact(&mut len_buf) fails: break, Ok(())
              /\ cn_pc' = [cn_pc EXCEPT ![k] = "closed"]
              /\ cn_end' = [cn_end EXCEPT ![k] = "eof"]
              /\ UNCHANGED << cn_sent, cn_last, cn_task, cn_st >>
         [] kind = "short" ->
              \* read_exact(&mut buf[..len])? fails
              /\ cn_pc' = [cn_pc EXCEPT ![k] = "closed"]
              /\ cn_end' = [cn_end EXCEPT ![k] = "read error"]
              /\ UNCHANGED << cn_sent, cn_last, cn_task, cn_st >>
         [] kind = "garbage" ->
              /\ cn_pc' = [cn_pc EXCEPT ![k] = AfterDecodeError]
              /\ cn_end' = [cn_end EXCEPT ![k] = "decode error"]
              /\ UNCHANGED << cn_sent, cn_last, cn_task, cn_st >>
         [] kind = "Execute" ->
              /\ cn_pc' = [cn_pc EXCEPT ![k] = "execute"]
              /\ cn_task' = [cn_task EXCEPT ![k] = NextTask]
              /\ UNCHANGED << cn_sent, cn_last, cn_st, cn_end >>
         [] kind = "Status" ->
              /\ cn_pc' = [cn_pc EXCEPT ![k] = "status"]
              /\ cn_st' = [cn_st EXCEPT ![k] = NoStatusLoop]
              /\ UNCHANGED << cn_sent, cn_last, cn_task, cn_end >>
         [] kind = "NoCode" ->
              /\ ConnWrite(k, NoCodeResponse, cn_read[k] + 1)
              /\ UNCHANGED << cn_task, cn_st >>
         [] kind = "Ping" ->
              /\ ConnWrite(k, PingResponse, cn_read[k] + 1)
              /\ UNCHANGED << cn_task, cn_st >>
    /\ UNCHANGED cn_peer
    /\ UNCHANGED serviceVars
    /\ UNCHANGED outsideConn

\* handle_request calls pool.execute(code) for the connection's request.
ConnArrive(k) ==
    /\ cn_pc[k] = "execute"
    /\ Arrive(cn_task[k])

\* pool.execute has returned: handle_request builds the response, and
\* handle_connection encodes and writes it.
ConnRespond(k) ==
    /\ cn_pc[k] = "execute"
    /\ pc[cn_task[k]] = "done"
    /\ ConnWrite(k, ExecuteResponse(res[cn_task[k]]), cn_read[k])
    /\ UNCHANGED << cn_peer, cn_read, cn_req, cn_task, cn_st >>
    /\ UNCHANGED serviceVars
    /\ UNCHANGED outsideConn

\* WorkerPool::status, one iteration of the loop: lock, match on the state,
\* unlock.
StatusLook(k) ==
    /\ cn_pc[k] = "status"
    /\ cn_st[k].i < built
    /\ Lockable(cn_st[k].i)
    /\ cn_st' = [cn_st EXCEPT ![k] = Count(@, state[cn_st[k].i])]
    /\ UNCHANGED << cn_pc, cn_peer, cn_read, cn_req, cn_sent, cn_last, cn_task,
                    cn_end >>
    /\ UNCHANGED serviceVars
    /\ UNCHANGED outsideConn

\* WorkerPool::status returns its PoolStatus; the Status response is written.
StatusRespond(k) ==
    /\ cn_pc[k] = "status"
    /\ cn_st[k].i = built
    /\ ConnWrite(k, StatusResponse(cn_st[k]), cn_read[k])
    /\ UNCHANGED << cn_peer, cn_read, cn_req, cn_task, cn_st >>
    /\ UNCHANGED serviceVars
    /\ UNCHANGED outsideConn

\* The server with a pool that has served fewer than MaxExecutions requests:
\* requests reach WorkerPool::execute through the connections only, and
\* their code is within the frame limits and the wall-clock ceiling; a
\* worker's child can still die before or while it runs the code.
ConnCodes == { "ok" }

ConnNext ==
    \/ PoolNew
    \/ \E k \in Conns : Accept(k)
    \/ \E k \in Conns : ClientClose(k)
    \/ \E k \in Conns, kind \in FrameKinds : ConnRead(k, kind)
    \/ \E k \in Conns : ConnArrive(k)
    \/ \E k \in Conns : ConnRespond(k)
    \/ \E k \in Conns : StatusLook(k)
    \/ \E k \in Conns : StatusRespond(k)
    \/ \E c \in Clients : GetIdleLook(c)
    \/ \E c \in Clients : GetIdleNone(c)
    \/ \E c \in Clients, k \in ConnCodes : Execute(c, k)
    \/ \E c \in Clients : RecvResult(c)
    \/ \E c \in Clients : CheckRecycle(c)
    \/ \E w \in Workers : ChildInit(w)
    \/ \E w \in Workers : ChildRecvCode(w)
    \/ \E w \in Workers : ChildFinish(w)
    \/ \E w \in Workers : ChildKilled(w)

ConnSpec == Init /\ [][ConnNext]_vars

\* The server with one connection and a pool of any age: the requests carry
\* any code, and a worker that reaches MaxExecutions is recycled.  The
\* requests of one connection come one after the other, so that get_idle
\* always finds a worker Idle unless MaxRequests exceeds NumWorkers.
FirstConn == { 1 }
ServeCodes == Codes \cup FailingCodes

ServeNext ==
    \/ PoolNew
    \/ \E n \in QuietRuns : ServeQuietly(n)
    \/ \E k \in FirstConn : Accept(k)
    \/ \E k \in FirstConn : ClientClose(k)
    \/ \E k \in FirstConn, kind \in FrameKinds : ConnRead(k, kind)
    \/ \E k \in FirstConn : ConnArrive(k)
    \/ \E k \in FirstConn : ConnRespond(k)
    \/ \E k \in FirstConn : StatusLook(k)
    \/ \E k \in FirstConn : StatusRespond(k)
    \/ \E c \in Clients : GetIdleLook(c)
    \/ \E c \in Clients, k \in ServeCodes : Execute(c, k)
    \/ \E c \in Clients : RecvResult(c)
    \/ \E c \in Clients : CheckRecycle(c)
    \/ \E c \in Clients : Spawn(c)
    \/ \E c \in Clients : Recycled(c)
    \/ \E w \in Workers : ChildInit(w)
    \/ \E w \in Workers : ChildRecvCode(w)
    \/ \E w \in Workers : CeilingLapse(w)
    \/ \E w \in Workers : ChildFinish(w)
    \/ \E w \in Workers : ChildKilled(w)

ServeSpec == Init /\ [][ServeNext]_vars

(* ------------------------------------------------------------------ *)
(* protocol: Request, Response, encode and decode                      *)
(* ------------------------------------------------------------------ *)

\* Option<T>
None == << >>
Some(x) == << x >>

\* ExecuteRequest values: every combination of its optional fields, without
\* and with an input file.
ExecuteRequests ==
    [type : { "Execute" },
     code : { None, Some("pass") },
     shm_slot_id : { None, Some(0) },
     timeout : { None, Some([secs |-> 30, nanos |-> 500]) },
     memory_limit : { None, Some(1048576) },
     files : { << >>, << << "a.txt", << 104, 105 >> >> >> }]

\* Request
Requests == ExecuteRequests \cup { [type |-> "Status"], [type |-> "Ping"] }

\* ExecutionResult values.
ExecutionResults ==
    [exit_code : { 0, 0 - 1 },
     stdout : { << >>, << 104 >> },
     stderr : { << >> },
     duration : { [secs |-> 0, nanos |-> 1000] },
     memory_peak : { 0 },
     cpu_time_us : { 0 },
     timed_out : BOOLEAN,
     oom_killed : { FALSE }]

\* Response
Responses ==
    [type : { "Execute" }, success : BOOLEAN,
     result : { None } \cup { Some(r) : r \in ExecutionResults },
     error : { None, Some("execution error: boom") }]
    \cup [type : { "Status" }, total : { 0, 4 }, idle : { 0, 4 }, busy : { 0, 4 }]
    \cup { [type |-> "Pong"] }
    \cup [type : { "Error" }, message : { "", "bad request" }]

\* MessagePack values, as rmp writes and reads them.
MpInt(n) == [t |-> "int", v |-> n]
MpStr(x) == [t |-> "str", v |-> x]
MpBool(b) == [t |-> "bool", v |-> b]
MpArr(items) == [t |-> "array", v |-> items]

\* serde's Serialize for Option, Vec<u8>, Duration, tuples and Vec, through
\* rmp_serde::to_vec: None is nil and Some(x) is x; a struct is the array of
\* its fields in declaration order, without their names.
enc_option(o, E(_)) == IF o = None THEN Nil ELSE E(o[1])
enc_bytes(b) == MpArr([i \in 1 .. Len(b) |-> MpInt(b[i])])
enc_duration(d) == MpArr(<< MpInt(d.secs), MpInt(d.nanos) >>)
enc_file(f) == MpArr(<< MpStr(f[1]), enc_bytes(f[2]) >>)
enc_files(fs) == MpArr([i \in 1 .. Len(fs) |-> enc_file(fs[i])])

\* #[derive(Serialize)] of ExecutionResult
enc_result(r) ==
    MpArr(<< MpInt(r.exit_code), enc_bytes(r.stdout), enc_bytes(r.stderr),
           enc_duration(r.duration), MpInt(r.memory_peak), MpInt(r.cpu_time_us),
           MpBool(r.timed_out), MpBool(r.oom_killed) >>)

\* An encoding of a variant that leaves out the tag.
untagged(variant, fields) == MpArr(fields)

\* #[serde(tag = "type")]: the variant's name is written as the first field
\* of the variant's struct.
tagged(variant, fields) == MpArr(<< MpStr(variant) >> \o fields)

\* protocol::encode for a Request and for a Response.
encode_request(m) ==
    CASE m.type = "Execute" ->
           tagged("Execute",
                  << enc_option(m.code, MpStr), enc_option(m.shm_slot_id, MpInt),
                     enc_option(m.timeout, enc_duration),
                     enc_option(m.memory_limit, MpInt), enc_files(m.files) >>)
      [] OTHER -> tagged(m.type, << >>)

encode_response(m) ==
    CASE m.type = "Execute" ->
           tagged("Execute",
                  << MpBool(m.success), enc_option(m.result, enc_result),
                     enc_option(m.error, MpStr) >>)
      [] m.type = "Status" ->
           tagged("Status", << MpInt(m.total), MpInt(m.idle), MpInt(m.busy) >>)
      [] m.type = "Error" -> tagged("Error", << MpStr(m.message) >>)
      [] OTHER -> tagged(m.type, << >>)

encode(kind, m) ==
    IF kind = "Request" THEN encode_request(m) ELSE encode_response(m)

\* The result of a Deserialize: a value, or an error.
Fail == [ok |-> FALSE, val |-> NoMessage]
Got(x) == [ok |-> TRUE, val |-> x]

\* serde's Deserialize for strings, integers, booleans, Option, Vec<u8>,
\* Duration, tuples and Vec.
dec_str(w) == IF w.t = "str" THEN Got(w.v) ELSE Fail
dec_int(w) == IF w.t = "int" THEN Got(w.v) ELSE Fail
dec_uint(w) == IF w.t = "int" /\ w.v >= 0 THEN Got(w.v) ELSE Fail
dec_bool(w) == IF w.t = "bool" THEN Got(w.v) ELSE Fail
dec_option(w, D(_)) ==
    IF w.t = "nil" THEN Got(None)
    ELSE IF D(w).ok THEN Got(Some(D(w).val)) ELSE Fail
dec_seq(w, D(_)) ==
    IF w.t # "array" THEN Fail
    ELSE IF \A i \in 1 .. Len(w.v) : D(w.v[i]).ok
         THEN Got([i \in 1 .. Len(w.v) |-> D(w.v[i]).val])
         ELSE Fail
dec_byte(w) == IF w.t = "int" /\ w.v >= 0 /\ w.v <= 255 THEN Got(w.v) ELSE Fail
dec_bytes(w) == dec_seq(w, dec_byte)
dec_duration(w) ==
    IF w.t = "array" /\ Len(w.v) = 2 /\ dec_uint(w.v[1]).ok /\ dec_uint(w.v[2]).ok
    THEN Got([secs |-> w.v[1].v, nanos |-> w.v[2].v])
    ELSE Fail
dec_file(w) ==
    IF w.t = "array" /\ Len(w.v) = 2 /\ dec_str(w.v[1]).ok /\ dec_bytes(w.v[2]).ok
    THEN Got(<< w.v[1].v, dec_bytes(w.v[2]).val >>)
    ELSE Fail
dec_files(w) == dec_seq(w, dec_file)

\* #[derive(Deserialize)] of ExecutionResult, visit_seq: the fields by
\* position.
dec_result(w) ==
    IF /\ w.t = "array"
       /\ Len(w.v) = 8
       /\ dec_int(w.v[1]).ok
       /\ dec_bytes(w.v[2]).ok
       /\ dec_bytes(w.v[3]).ok
       /\ dec_duration(w.v[4]).ok
       /\ dec_uint(w.v[5]).ok
       /\ dec_uint(w.v[6]).ok
       /\ dec_bool(w.v[7]).ok
       /\ dec_bool(w.v[8]).ok
    THEN Got([exit_code |-> w.v[1].v,
              stdout |-> dec_bytes(w.v[2]).val,
              stderr |-> dec_bytes(w.v[3]).val,
              duration |-> dec_duration(w.v[4]).val,
              memory_peak |-> w.v[5].v,
              cpu_time_us |-> w.v[6].v,
              timed_out |-> w.v[7].v,
              oom_killed |-> w.v[8].v])
    ELSE Fail

\* What decode returns when it fails.
DecodeError == [type |-> "DecodeError"]

\* The variants of Request and of Response, from the fields that follow the
\* tag.
decode_request(tag, f) ==
    CASE tag = "Execute" ->
           IF /\ Len(f) = 5
              /\ dec_option(f[1], dec_str).ok
              /\ dec_option(f[2], dec_uint).ok
              /\ dec_option(f[3], dec_duration).ok
              /\ dec_option(f[4], dec_uint).ok
              /\ dec_files(f[5]).ok
           THEN [type |-> "Execute",
                 code |-> dec_option(f[1], dec_str).val,
                 shm_slot_id |-> dec_option(f[2], dec_uint).val,
                 timeout |-> dec_option(f[3], dec_duration).val,
                 memory_limit |-> dec_option(f[4], dec_uint).val,
                 files |-> dec_files(f[5]).val]
           ELSE DecodeError
      [] tag \in { "Status", "Ping" } -> [type |-> tag]
      [] OTHER -> DecodeError

decode_response(tag, f) ==
    CASE tag = "Execute" ->
           IF /\ Len(f) = 3
              /\ dec_bool(f[1]).ok
              /\ dec_option(f[2], dec_result).ok
              /\ dec_option(f[3], dec_str).ok
           THEN [type |-> "Execute",
                 success |-> f[1].v,
                 result |-> dec_option(f[2], dec_result).val,
                 error |-> dec_option(f[3], dec_str).val]
           ELSE DecodeError
      [] tag = "Status" ->
           IF /\ Len(f) = 3
              /\ dec_uint(f[1]).ok /\ dec_uint(f[2]).ok /\ dec_uint(f[3]).ok
           THEN [type |-> "Status", total |-> f[1].v, idle |-> f[2].v,
                 busy |-> f[3].v]
           ELSE DecodeError
      [] tag = "Error" ->
           IF Len(f) = 1 /\ dec_str(f[1]).ok
           THEN [type |-> "Error", message |-> f[1].v]
           ELSE DecodeError
      [] tag = "Pong" -> [type |-> "Pong"]
      [] OTHER -> DecodeError

\* protocol::decode: serde reads the whole value, takes the first element
\* of the sequence as the tag, and deserializes the variant of that name
\* from the elements that follow.
decode(kind, w) ==
    IF w.t = "array" /\ Len(w.v) >= 1 /\ dec_str(w.v[1]).ok
    THEN IF kind = "Request"
         THEN decode_request(w.v[1].v, Tail(w.v))
         ELSE decode_response(w.v[1].v, Tail(w.v))
    ELSE DecodeError

\* A call encode(&m) for a Request or a Response m.
Encode(kind, m) ==
    /\ cd_kind' = kind
    /\ cd_val' = m
    /\ cd_wire' = encode(kind, m)
    /\ cd_out' = NoMessage
    /\ UNCHANGED outsideCodec

\* A call decode(&bytes) on what encode returned.
Decode ==
    /\ cd_kind # "none"
    /\ cd_out = NoMessage
    /\ cd_out' = decode(cd_kind, cd_wire)
    /\ UNCHANGED << cd_kind, cd_val, cd_wire >>
    /\ UNCHANGED outsideCodec

CodecNext ==
    \/ \E m \in Requests : Encode("Request", m)
    \/ \E m \in Responses : Encode("Response", m)
    \/ Decode

CodecSpec == Init /\ [][CodecNext]_vars

(* ------------------------------------------------------------------ *)
(* isolation::mounts: MountConfig::apply                               *)
(* ------------------------------------------------------------------ *)

\* The longest list of bind mounts a configuration is given.
MaxBinds == 2

\* Source paths a configuration names, and those of them that exist on the
\* host when apply runs (src.exists()).
Sources == { "/usr", "/opt/venv" }
ExistingPaths == { "/usr" }
exists(src) == src \in ExistingPaths

\* Sequences over a set, up to a length.
SeqUpTo(S, n) == UNION { [1 .. k -> S] : k \in 0 .. n }

\* MountConfig values: new_root is whether a new root is named; the bind
\* lists hold the source of each pair; tmpfs holds the size of each mount.
MountConfigs ==
    [new_root : BOOLEAN,
     ro_binds : SeqUpTo(Sources, MaxBinds),
     rw_binds : SeqUpTo(Sources, 1),
     tmpfs : SeqUpTo({ 67108864 }, 1)]

\* One operation on the filesystem, and whether it succeeded.
MountOp(op, list, n, ok) == [op |-> op, list |-> list, n |-> n, ok |-> ok]

\* Where apply continues from position (at, i): the loops of setup_binds and
\* setup_tmpfs end when their list is exhausted, and do_pivot_root follows.
NextPos(cfg, at, i) ==
    LET afterTmpfs == << "pivot", 0 >>
        afterRw == IF Len(cfg.tmpfs) > 0 THEN << "tmpfs", 0 >> ELSE afterTmpfs
        afterRo == IF Len(cfg.rw_binds) > 0 THEN << "rw", 0 >> ELSE afterRw
    IN  CASE at = "ro" -> IF i < Len(cfg.ro_binds) THEN << "ro", i >> ELSE afterRo
          [] at = "rw" -> IF i < Len(cfg.rw_binds) THEN << "rw", i >> ELSE afterRw
          [] at = "tmpfs" -> IF i < Len(cfg.tmpfs) THEN << "tmpfs", i >> ELSE afterTmpfs

\* A step that succeeded: the operation is done and apply goes on.
MountGoesOn(entry, at, i) ==
    /\ mt_log' = Append(mt_log, entry)
    /\ mt_pc' = NextPos(mt_cfg, at, i)[1]
    /\ mt_i' = NextPos(mt_cfg, at, i)[2]
    /\ UNCHANGED << mt_cfg, mt_ret >>

\* A step that failed: `?` returns LeewardError::Mount from apply.
MountFails(entry) ==
    /\ mt_log' = Append(mt_log, entry)
    /\ mt_pc' = "done"
    /\ mt_ret' = "Mount"
    /\ UNCHANGED << mt_cfg, mt_i >>

\* A configuration is built and apply is called on it.
MountApply(cfg) ==
    /\ mt_pc = "config"
    /\ mt_cfg' = cfg
    /\ mt_pc' = "root"
    /\ UNCHANGED << mt_i, mt_log, mt_ret >>
    /\ UNCHANGED outsideMount

\* setup_root: the new root and its essential directories are created when
\* a new root is named.
SetupRoot(ok) ==
    /\ mt_pc = "root"
    /\ IF ~mt_cfg.new_root
       THEN /\ ok
            /\ mt_pc' = NextPos(mt_cfg, "ro", 0)[1]
            /\ mt_i' = NextPos(mt_cfg, "ro", 0)[2]
            /\ UNCHANGED << mt_cfg, mt_log, mt_ret >>
       ELSE IF ok
            THEN MountGoesOn(MountOp("create_root", "", 0, TRUE), "ro", 0)
            ELSE MountFails(MountOp("create_root", "", 0, FALSE))
    /\ UNCHANGED outsideMount

\* setup_binds, first loop: a read-only bind whose source exists is bind
\* mounted; one whose source does not exist is passed over.
RoBind(ok) ==
    /\ mt_pc = "ro"
    /\ IF ~exists(mt_cfg.ro_binds[mt_i + 1])
       THEN /\ ok
            /\ mt_pc' = NextPos(mt_cfg, "ro", mt_i + 1)[1]
            /\ mt_i' = NextPos(mt_cfg, "ro", mt_i + 1)[2]
            /\ UNCHANGED << mt_cfg, mt_log, mt_ret >>
       ELSE IF ok
            THEN /\ mt_log' = Append(mt_log, MountOp("bind", "ro", mt_i + 1, TRUE))
                 /\ mt_pc' = "remount"
                 /\ UNCHANGED << mt_cfg, mt_i, mt_ret >>
            ELSE MountFails(MountOp("bind", "ro", mt_i + 1, FALSE))
    /\ UNCHANGED outsideMount

\* mount_remount_ro of the bind just made.
RoRemount(ok) ==
    /\ mt_pc = "remount"
    /\ IF ok
       THEN MountGoesOn(MountOp("remount_ro", "ro", mt_i + 1, TRUE), "ro", mt_i + 1)
       ELSE MountFails(MountOp("remount_ro", "ro", mt_i + 1, FALSE))
    /\ UNCHANGED outsideMount

\* setup_binds, second loop: the read-write binds.
RwBind(ok) ==
    /\ mt_pc = "rw"
    /\ IF ~exists(mt_cfg.rw_binds[mt_i + 1])
       THEN /\ ok
            /\ mt_pc' = NextPos(mt_cfg, "rw", mt_i + 1)[1]
            /\ mt_i' = NextPos(mt_cfg, "rw", mt_i + 1)[2]
            /\ UNCHANGED << mt_cfg, mt_log, mt_ret >>
       ELSE IF ok
            THEN MountGoesOn(MountOp("bind", "rw", mt_i + 1, TRUE), "rw", mt_i + 1)
            ELSE MountFails(MountOp("bind", "rw", mt_i + 1, FALSE))
    /\ UNCHANGED outsideMount

\* setup_tmpfs: the mount point is created and a tmpfs mounted on it.
MountTmpfs(ok) ==
    /\ mt_pc = "tmpfs"
    /\ IF ok
       THEN MountGoesOn(MountOp("tmpfs", "tmpfs", mt_i + 1, TRUE), "tmpfs", mt_i + 1)
       ELSE MountFails(MountOp("tmpfs", "tmpfs", mt_i + 1, FALSE))
    /\ UNCHANGED outsideMount

\* do_pivot_root: nothing without a new root; otherwise put_old is created,
\* the root is pivoted, and the old root is detached and removed. The
\* outcome says which of these is the first to fail.
PivotOutcomes == { "ok", "pivot_root", "detach" }

DoPivotRoot(outcome) ==
    /\ mt_pc = "pivot"
    /\ mt_pc' = "done"
    /\ IF ~mt_cfg.new_root
       THEN /\ outcome = "ok"
            /\ mt_ret' = "Ok"
            /\ UNCHANGED mt_log
       ELSE CASE outcome = "ok" ->
                   /\ mt_log' = mt_log \o << MountOp("pivot_root", "", 0, TRUE),
                                              MountOp("detach", "", 0, TRUE) >>
                   /\ mt_ret' = "Ok"
              [] outcome = "pivot_root" ->
                   /\ mt_log' = Append(mt_log, MountOp("pivot_root", "", 0, FALSE))
                   /\ mt_ret' = "Mount"
              [] outcome = "detach" ->
                   /\ mt_log' = mt_log \o << MountOp("pivot_root", "", 0, TRUE),
                                              MountOp("detach", "", 0, FALSE) >>
                   /\ mt_ret' = "Mount"
    /\ UNCHANGED << mt_cfg, mt_i >>
    /\ UNCHANGED outsideMount

MountNext ==
    \/ \E cfg \in MountConfigs : MountApply(cfg)
    \/ \E ok \in BOOLEAN : SetupRoot(ok)
    \/ \E ok \in BOOLEAN : RoBind(ok)
    \/ \E ok \in BOOLEAN : RoRemount(ok)
    \/ \E ok \in BOOLEAN : RwBind(ok)
    \/ \E ok \in BOOLEAN : MountTmpfs(ok)
    \/ \E outcome \in PivotOutcomes : DoPivotRoot(outcome)

MountSpec == Init /\ [][MountNext]_vars

(* ------------------------------------------------------------------ *)
(* The worker pool's specification                                     *)
(* ------------------------------------------------------------------ *)

Next ==
    \/ PoolNew
    \/ \E n \in QuietRuns : ServeQuietly(n)
    \/ \E c \in Clients : Arrive(c)
    \/ \E c \in Clients : GetIdleLook(c)
    \/ \E c \in Clients : GetIdleNone(c)
    \/ \E c \in Clients, k \in Codes : Execute(c, k)
    \/ \E c \in Clients : RecvResult(c)
    \/ \E c \in Clients : CheckRecycle(c)
    \/ \E c \in Clients : Spawn(c)
    \/ \E c \in Clients : Recycled(c)
    \/ \E w \in Workers : ChildInit(w)
    \/ \E w \in Workers : ChildRecvCode(w)
    \/ \E w \in Workers : CeilingLapse(w)
    \/ \E w \in Workers : ChildFinish(w)
    \/ \E w \in Workers : ChildKilled(w)

Spec == Init /\ [][Next]_vars

(* ------------------------------------------------------------------ *)
(* Properties                                                          *)
(* ------------------------------------------------------------------ *)

Executing(w) == {c \in Clients : pc[c] = "recv_result" /\ target[c] = w}

\* C1: at most one call at a time is inside Worker::execute on a given
\* worker, that call holds the worker's guard, and the worker never has more
\* than one code frame outstanding.
C1_OneExecutePerWorker ==
    \A w \in Workers :
        /\ Cardinality(Executing(w)) <= 1
        /\ \A c \in Executing(w) : guard[w] = c
        /\ Len(code_q[w]) <= 1
        /\ sent[w] - rcvd[w] <= 1

\* C1 witness: one request is inside Worker::execute on a worker while another
\* request that chose the same worker waits for its guard.
C1_Witness ==
    \E c, d \in Clients :
        /\ c # d
        /\ pc[c] = "recv_result"
        /\ pc[d] = "execute"
        /\ target[c] = target[d]

\* The documented state machine of a worker (spec 4.4).
DocumentedEdges ==
    { <<"Dead", "Idle">>, <<"Idle", "Busy">>, <<"Busy", "Idle">>,
      <<"Idle", "Recycling">>, <<"Busy", "Recycling">>, <<"Recycling", "Idle">>,
      <<"Idle", "Dead">>, <<"Busy", "Dead">> }

\* C2: every change of a worker's state is an edge of the documented machine.
C2_StateMachine ==
    [][\A w \in Workers :
         state'[w] # state[w] => <<state[w], state'[w]>> \in DocumentedEdges]_vars

\* C2 witness: a worker that was recycled (it has a pid other than the one
\* WorkerPool::new gave it) is Busy again: it went through Idle, Busy, Idle,
\* Recycling, Idle, Busy.
C2_Witness ==
    \E w \in Workers : state[w] = "Busy" /\ pid[w] # NoPid /\ pid[w] # w + 1

\* C3: a request that arrives while some worker is Idle is dispatched without
\* waiting for an execute in flight on another worker: no request is held up
\* in get_idle by the guard of a worker that is executing while another worker
\* is Idle and free.
C3_ParallelDispatch ==
    \A c \in Clients :
        (pc[c] = "get_idle" /\ idx[c] \in Workers) =>
            ~ /\ guard[idx[c]] # NoClient
              /\ pc[guard[idx[c]]] = "recv_result"
              /\ \E w \in Workers \ {idx[c]} :
                    state[w] = "Idle" /\ guard[w] = NoClient

BackPressure(r) == ~r.ok /\ r.why = "no idle workers available"

\* C4: when num_workers + 1 requests were in flight together and none of them
\* failed in execution, exactly one got the back-pressure error and the other
\* num_workers were served.
C4_OneBackPressure ==
    ( /\ NumClients = NumWorkers + 1
      /\ \A c \in Clients :
            /\ pc[c] = "done"
            /\ note[c].full
            /\ res[c].ok \/ BackPressure(res[c]) )
    => /\ Cardinality({c \in Clients : BackPressure(res[c])}) = 1
       /\ Cardinality({c \in Clients : res[c].ok}) = NumWorkers

\* C5: the n-th result frame the parent reads answers the n-th code frame it
\* sent, which is the code of the request being executed; the child has
\* written exactly one result frame per well-formed code frame it has read and
\* finished, and no result frame is lost or duplicated in the pipe.
C5_FramesInOrder ==
    /\ \A c \in Clients :
          got[c] # NoFrame =>
              /\ got[c].ans = got[c].nth
              /\ got[c].code = code[c]
    /\ \A w \in Workers :
          pipe[w] =>
              /\ cwrote[w] = rcvd[w] + Len(result_q[w])
              /\ cwrote[w] <= cread[w]
              /\ cread[w] <= cwrote[w] + 1
              /\ child[w].pc = "recv" => cread[w] = cwrote[w]
              /\ child[w].pc = "run" => cread[w] = cwrote[w] + 1

\* C5 witness: the parent has read the second result frame of a worker that
\* started with none.
C5_Witness ==
    \E c \in Clients : got[c] # NoFrame /\ got[c].nth = 2

\* C6: an execute whose code was still running when the wall-clock ceiling
\* lapsed returns an Execution Result with timed_out = true.
C6_TimeoutEnforced ==
    \A c \in Clients :
        (pc[c] = "done" /\ note[c].overran /\ res[c].ok) => res[c].timed_out

PipeFailure(r) == ~r.ok /\ r.why \in {"broken pipe", "unexpected eof"}

\* C7: when a pipe operation of an execute fails because the worker process
\* is gone, the call returns an Execution error and the worker is not left
\* Busy: it is Dead, or being respawned, or Idle again.
C7_DeathMarksDead ==
    \A c \in Clients :
        (pc[c] = "done" /\ PipeFailure(res[c])) =>
            /\ res[c].kind = "Execution"
            /\ state[target[c]] \in {"Dead", "Recycling", "Idle"}

\* C8: after Worker::recycle returns successfully the worker is Idle, its
\* execution_count is 0, and its pid is present and differs from the pid it
\* had before the recycle.
C8_RecycleFresh ==
    \A c \in Clients :
        pc[c] = "recycled" =>
            LET w == target[c] IN
            /\ state[w] = "Idle"
            /\ execution_count[w] = 0
            /\ pid[w] # NoPid
            /\ pid[w] # note[c].old_pid
            /\ pipe[w]

\* C8 witness: recycle has returned Ok for a worker that had a pid.
C8_Witness ==
    \E c \in Clients : pc[c] = "recycled" /\ note[c].old_pid # NoPid

\* C9 as claimed: the WorkerPool::execute whose Worker::execute brought
\* execution_count to the threshold returns with the worker still Idle and
\* with the pid the code ran under.
C9_NotRecycledByThatExecute ==
    [][\A c \in Clients :
         (pc[c] # "done" /\ pc'[c] = "done" /\ note[c].reached) =>
             /\ state'[target[c]] = "Idle"
             /\ pid'[target[c]] = note[c].exec_pid]_vars

\* C9 amended: once the WorkerPool::execute whose Worker::execute brought
\* execution_count to the threshold has returned, the worker no longer has the
\* pid the code ran under: it was recycled before that call returned.
C9_RecycledBeforeReturn ==
    \A c \in Clients :
        (pc[c] = "done" /\ note[c].reached) =>
            pid[target[c]] # note[c].exec_pid

\* C9 witness: such a call has returned Ok.
C9_Witness ==
    \E c \in Clients : pc[c] = "done" /\ note[c].reached /\ res[c].ok

\* C10: a worker's execution_count never exceeds the recycle threshold.
C10_CountBounded ==
    \A w \in Workers : execution_count[w] <= MaxExecutions

\* C11 as claimed: the active-slot counter never exceeds MAX_SLOTS.
C11_CounterBounded == active_requests <= MAX_SLOTS

AllocsInFlight == {t \in Threads : shm_pc[t] = "fetched"}

\* C11 amended: never more than MAX_SLOTS slots are handed out, and the
\* counter is the number handed out plus the allocate_slot calls between their
\* increment and their return: it exceeds MAX_SLOTS only while calls that
\* found the arena full have not yet undone their increment, and every such
\* call has undone it when it returns its error.
C11_SlotsBounded ==
    /\ held <= MAX_SLOTS
    /\ active_requests = held + Cardinality(AllocsInFlight)
    /\ \A t \in AllocsInFlight :
          shm_slot[t] < MAX_SLOTS => held < MAX_SLOTS

\* C11 witness: an allocate_slot has found the arena full and returned its
\* error, and the counter is back at MAX_SLOTS.
C11_Witness ==
    \E t \in Threads :
        /\ shm_res[t] = "full"
        /\ shm_pc[t] = "idle"
        /\ active_requests = MAX_SLOTS
        /\ held = MAX_SLOTS

\* C12: a worker's pid and its parent-side pipe pair are both present or both
\* absent in every reachable state.
C12_PidAndPipeTogether ==
    \A w \in Workers : (pid[w] # NoPid) <=> pipe[w]

\* C12 witness: a recycle whose spawn failed has left the worker with neither,
\* while another worker has both.
C12_Witness ==
    \E c \in Clients :
        /\ pc[c] = "done"
        /\ ~res[c].ok
        /\ state[target[c]] = "Recycling"
        /\ pid[target[c]] = NoPid
        /\ \E w \in Workers : pid[w] # NoPid /\ pipe[w]

\* C13: whenever a worker is Idle both of its pipes are empty: no code frame
\* waits for the child and no result frame, or part of one, waits for the
\* parent.
C13_IdlePipesEmpty ==
    \A w \in Workers :
        state[w] = "Idle" => code_q[w] = << >> /\ result_q[w] = << >>

\* C13 witness: Worker::execute has just read a result and set the worker Idle.
C13_Witness ==
    \E c \in Clients :
        /\ pc[c] = "check_recycle"
        /\ state[target[c]] = "Idle"
        /\ got[c] # NoFrame

SpawnFailed(r) == ~r.ok /\ r.why \in {"pipe2 failed", "clone3 failed"}

\* C14: when spawn fails, on a new worker or inside recycle, the worker ends
\* in state Dead with pid and pipe absent.
C14_FailedSpawnDead ==
    /\ daemon = "failed" =>
          state[built] = "Dead" /\ pid[built] = NoPid /\ ~pipe[built]
    /\ \A c \in Clients :
          (pc[c] = "done" /\ SpawnFailed(res[c])) =>
              /\ state[target[c]] = "Dead"
              /\ pid[target[c]] = NoPid
              /\ ~pipe[target[c]]

\* C15: the pool holds exactly num_workers entries once it exists, with the
\* identifiers 0..num_workers-1, and no operation adds, removes or renumbers
\* an entry: a recycled worker keeps its slot and its id.
C15_PoolSizeFixed ==
    /\ built = Cardinality({w \in Workers : id[w] # NoWorker})
    /\ \A w \in Workers : id[w] \in {NoWorker, w}
    /\ daemon = "serving" =>
          /\ built = NumWorkers
          /\ \A w \in Workers : id[w] = w

\* C15 witness: a worker has been recycled and is entry number id of a full
\* pool.
C15_Witness ==
    \E c \in Clients :
        /\ pc[c] = "recycled"
        /\ built = NumWorkers
        /\ id[target[c]] = target[c]
        /\ pid[target[c]] # note[c].exec_pid

\* C16: recycle reaps the killed child: once recycle has returned, the
\* previous child process of the worker has been waited on and is no longer
\* among the daemon's children.
C16_RecycleReaps ==
    \A c \in Clients :
        pc[c] = "recycled" => note[c].old_pid \notin procs

\* C17: under the filter of SeccompConfig::default no syscall outside the
\* allow-list silently succeeds: it is denied with an errno or it kills the
\* caller.
C17_NoSilentSuccess ==
    ( /\ sc_config = DefaultSeccompConfig
      /\ sc_filter # NoFilter
      /\ sc_last # NoSyscall
      /\ sc_last.nr \notin default_python_syscalls )
    => sc_last.result \in {"denied", "killed"}

\* C18: the child executes a code frame only after namespace entry,
\* filesystem-policy installation and syscall-filter installation have each
\* succeeded, in that order, with the filesystem policy enforced at least
\* partially.
C18_InitOrderedAndFatal ==
    wm_frames > 0 =>
        /\ wm_steps = << "namespaces", "landlock", "seccomp" >>
        /\ wm_landlock \in { "PartiallyEnforced", "FullyEnforced" }

\* C19: a child whose entry routine failed exits with a non-zero status,
\* which differs from the status of a child whose routine returned normally.
C19_FailureStatusDistinct ==
    (wm_pc = "exited" /\ wm_result = "Err") =>
        /\ wm_exit # 0
        /\ wm_exit # exit_status("Ok")

\* C20: after spawn the daemon holds only the parent-side ends of the worker's
\* pipes and the child only the child-side ends, so that once the daemon has
\* closed its ends nobody holds the write end of the code pipe and the
\* child's read sees end-of-file.
C20_OnlyOwnEnds ==
    \A w \in Workers :
        /\ fd_pc[w] = "spawned" =>
              fd_daemon \cap PipeEnds(w) = ParentEnds(w)
        /\ (fd_pc[w] \in {"spawned", "closed"}
              /\ fd_cpc[w] \in {"reading", "blocked", "running"}) =>
              fd_child[w] = ChildEnds(w)
        /\ (fd_pc[w] = "closed" /\ fd_cpc[w] \in {"reading", "blocked"}) =>
              CodeEof(w)

\* C24: both ends of a pipe enforce the maximum frame size: no frame whose
\* payload exceeds the limit is ever written, no payload above the limit is
\* ever returned by a recv, and once a recv has rejected a frame nothing
\* further is exchanged: the rejected frame is the last one on the pipe.
C24_BothEndsEnforce ==
    /\ \A i \in 1 .. Len(fr_wire) :
          fr_wire[i].body.len <= FrameMax(fr_dir)
    /\ fr_got.ok => fr_got.payload.len <= FrameMax(fr_dir)
    /\ fr_rx = "aborted" => Len(fr_wire) <= 1

\* C25: the length prefix of every frame on the pipe equals the number of
\* payload bytes that follow it, and a recv of a frame whose payload is no
\* longer than the limit returns exactly the payload that was sent.
C25_RoundTrip ==
    /\ \A i \in 1 .. Len(fr_wire) :
          from_be_bytes(fr_wire[i].prefix) = fr_wire[i].body.len
    /\ (fr_got # NoRecv /\ fr_last.len <= FrameMax(fr_dir)) =>
          /\ fr_got.ok
          /\ fr_got.payload = fr_last

\* C25 witness: a payload of exactly the limit has made the round trip
\* through a result pipe, as the last of several frames.
C25_Witness ==
    /\ fr_dir = "result"
    /\ fr_n = MaxFrames
    /\ fr_got.ok
    /\ fr_got.payload = fr_last
    /\ fr_last.len = MaxResultFrame

\* C26: after a write_request that succeeded, the request slot holds the
\* length prefix code.len() followed by the complete, unmodified payload:
\* read back as [length][payload], the slot gives exactly the code.
C26_SlotHoldsFrame ==
    sm_res = "Ok" =>
        /\ ReadLength(sm_mem, SlotPair(sm_slot)) = sm_len
        /\ ReadPayload(sm_mem, SlotPair(sm_slot), sm_len)
             = Bytes(CodeBytes(sm_n), sm_len)

\* C27: a code of exactly REQUEST_SLOT_SIZE bytes is accepted and its slot
\* then holds the length prefix and all of its bytes; a code of
\* REQUEST_SLOT_SIZE + 1 bytes is rejected and no byte of the mapping has
\* changed.
C27_SlotSizeBoundary ==
    /\ (sm_n > 0 /\ sm_len = REQUEST_SLOT_SIZE) =>
          /\ sm_res = "Ok"
          /\ ReadLength(sm_mem, SlotPair(sm_slot)) = sm_len
          /\ CountBytes(Load(sm_mem, SlotPair(sm_slot).request_offset,
                              REQUEST_SLOT_SIZE), CodeBytes(sm_n)) = sm_len
    /\ (sm_n > 0 /\ sm_len = REQUEST_SLOT_SIZE + 1) =>
          /\ sm_res = "Err"
          /\ sm_mem = sm_prev

\* The requests whose user code failed inside the sandbox and whose result
\* frame the daemon has read.
UserCodeFailed(c) ==
    /\ pc[c] \in { "check_recycle", "spawn", "recycled" }
    /\ got[c].code \in FailingCodes

\* C28: a failure of the user code inside the sandbox is never a daemon
\* error: the worker writes one result frame for it, the worker goes back to
\* Idle when the frame is read, pool.execute returns Ok with the non-zero exit
\* code, and the Execute response has success = true and carries that code.
C28_UserFailureIsSuccess ==
    [][ /\ \A w \in Workers :
             ( /\ child[w].pc = "run"
               /\ child[w].cur.code \in FailingCodes
               /\ child'[w].pc = "recv" )
             => /\ cwrote'[w] = cwrote[w] + 1
                /\ Len(result_q'[w]) = Len(result_q[w]) + 1
        /\ \A c \in Clients :
             ( /\ pc[c] = "recv_result"
               /\ code[c] \in FailingCodes
               /\ pc'[c] = "check_recycle" )
             => /\ state'[target[c]] = "Idle"
                /\ got'[c].exit_code # 0
        /\ \A c \in Clients :
             (UserCodeFailed(c) /\ pc'[c] = "done")
             => /\ res'[c].ok
                /\ res'[c].exit_code # 0
                /\ ExecuteResponse(res'[c]).success
                /\ ExecuteResponse(res'[c]).result.exit_code # 0
      ]_vars

\* The connections whose Execute request has come back from pool.execute
\* with an error while the client is still there.
ExecuteFailed(k) ==
    /\ cn_pc[k] = "execute"
    /\ pc[cn_task[k]] = "done"
    /\ ~res[cn_task[k]].ok
    /\ cn_peer[k] = "open"

ConnFields(k) ==
    << cn_pc[k], cn_peer[k], cn_read[k], cn_req[k], cn_sent[k], cn_last[k],
       cn_task[k], cn_st[k], cn_end[k] >>

Answers(kind) ==
    CASE kind \in { "Execute", "NoCode" } -> "Execute"
      [] kind = "Status" -> "Status"
      [] kind = "Ping" -> "Pong"
      [] OTHER -> "none"

NoTraffic == \A c \in Clients : pc[c] = "idle"

\* C29: as long as no Execute request has reached the pool, every Status
\* response a connection has received reports all NumWorkers workers of the
\* pool, all of them idle and none busy.
C29_QuietStatus ==
    \A k \in Conns :
        (NoTraffic /\ cn_last[k].type = "Status")
        => /\ cn_last[k].total = NumWorkers
           /\ cn_last[k].idle = NumWorkers
           /\ cn_last[k].busy = 0

\* C29 witness: with no traffic, one connection has received two Status
\* responses and the other one.
C29_Witness ==
    \E k, j \in Conns :
        /\ k # j
        /\ NoTraffic
        /\ cn_last[k].type = "Status"
        /\ cn_sent[k] = 2
        /\ cn_last[j].type = "Status"
        /\ cn_last[j].idle = NumWorkers

\* The connections whose client went away while handle_request was inside
\* pool.execute for them.
Abandoned(k) == cn_pc[k] = "execute" /\ cn_peer[k] = "gone mid-call"

\* C30: a client that disconnects while its Execute is in flight does not
\* cancel it.  The disconnect changes nothing in the pool and leaves the
\* handler where it is; the handler goes on only when pool.execute has
\* returned; the call reads its result frame as any other (worker Busy ->
\* Idle, execution_count + 1); the response is not delivered and the
\* connection is closed; and the request then no longer holds its worker.
C30_DisconnectDoesNotCancel ==
    [][ \A k \in Conns :
          /\ cn_peer'[k] # cn_peer[k]
             => /\ serviceVars' = serviceVars
                /\ cn_pc'[k] = cn_pc[k]
                /\ cn_task'[k] = cn_task[k]
          /\ (Abandoned(k) /\ pc[cn_task[k]] # "done")
             => /\ cn_pc'[k] = "execute"
                /\ pc[cn_task[k]] # "idle" => pc'[cn_task[k]] # "idle"
          /\ ( /\ Abandoned(k)
               /\ pc[cn_task[k]] = "recv_result"
               /\ pc'[cn_task[k]] = "check_recycle" )
             => LET w == target[cn_task[k]] IN
                /\ state[w] = "Busy"
                /\ state'[w] = "Idle"
                /\ execution_count'[w] = execution_count[w] + 1
          /\ (Abandoned(k) /\ cn_pc'[k] # "execute")
             => /\ pc[cn_task[k]] = "done"
                /\ cn_sent'[k] = cn_sent[k]
                /\ cn_last'[k] = cn_last[k]
                /\ cn_pc'[k] = "closed"
                /\ cn_end'[k] = "write error"
                /\ serviceVars' = serviceVars
                /\ \A w \in Workers : guard[w] # cn_task[k]
      ]_vars

\* C30 witness: the client of a connection went away mid-call, the call
\* completed with a result that was then discarded, and a later request of
\* the other connection is being served by the same worker.
C30_Witness ==
    \E k, j \in Conns :
        /\ cn_peer[k] = "gone mid-call"
        /\ cn_end[k] = "write error"
        /\ res[cn_task[k]].ok
        /\ cn_pc[j] = "execute"
        /\ cn_task[j] > cn_task[k]
        /\ pc[cn_task[j]] = "recv_result"
        /\ target[cn_task[j]] = target[cn_task[k]]
        /\ execution_count[target[cn_task[k]]] = 1

\* The requests about to call Worker::execute on a worker that is not Idle.
TurnedAway(c) ==
    /\ pc[c] = "execute"
    /\ state[target[c]] # "Idle"

\* C33: Worker::execute on a worker that is not Idle returns an Execution
\* error, writes no frame to the pipe and leaves the worker's state, pid, pipe
\* and execution_count as they were.
C33_NotIdleRefused ==
    [][ \A c \in Clients :
          (TurnedAway(c) /\ pc'[c] # "execute")
          => LET w == target[c] IN
             /\ pc'[c] = "done"
             /\ ~res'[c].ok
             /\ res'[c].kind = "Execution"
             /\ res'[c].why = "worker is not idle"
             /\ code_q'[w] = code_q[w]
             /\ sent'[w] = sent[w]
             /\ state'[w] = state[w]
             /\ pid'[w] = pid[w]
             /\ pipe'[w] = pipe[w]
             /\ execution_count'[w] = execution_count[w]
      ]_vars

\* C33 witness: a request was turned away by the worker it had chosen, which
\* another request's failed recycle had meanwhile left Recycling.
C33_Witness ==
    \E c, d \in Clients :
        /\ pc[c] = "done"
        /\ res[c].why = "worker is not idle"
        /\ state[target[c]] = "Recycling"
        /\ pc[d] = "done"
        /\ SpawnFailed(res[d])
        /\ target[d] = target[c]
\* C34: a worker's execution_count is the number of result frames its
\* executes have read since its last spawn.  A step changes it in two ways
\* only: the executes that succeed in the step each add one, and recycle sets
\* it to 0; an execute that returns an error leaves it as it was.  Between
\* the reset of a recycle and the spawn that follows the worker is Recycling.
C34_CountsSuccesses ==
    [][ /\ \A w \in Workers :
             \/ /\ execution_count'[w] = execution_count[w]
                /\ rcvd'[w] = rcvd[w] \/ rcvd'[w] = 0
             \/ /\ execution_count'[w] > execution_count[w]
                /\ execution_count'[w] - execution_count[w] = rcvd'[w] - rcvd[w]
                /\ state'[w] = "Idle"
             \/ /\ execution_count'[w] = 0
                /\ state'[w] = "Recycling"
                /\ \E c \in Clients : pc[c] = "check_recycle" /\ pc'[c] = "spawn"
        /\ \A c \in Clients :
             ( /\ pc[c] \in { "execute", "recv_result" }
               /\ pc'[c] = "done" )
             => /\ ~res'[c].ok
                /\ execution_count'[target[c]] = execution_count[target[c]]
        /\ \A c \in Clients :
             (pc[c] = "recv_result" /\ pc'[c] = "check_recycle")
             => execution_count'[target[c]] = execution_count[target[c]] + 1
        /\ \A w \in Workers :
             state'[w] # "Recycling" => execution_count'[w] = rcvd'[w]
      ]_vars

\* C34 witness: a worker was recycled after its MaxExecutions-th execute, and
\* since then has had one execute succeed and one fail: it counts one.
C34_Witness ==
    \E w \in Workers, c, d, e \in Clients :
        /\ target[e] = w /\ pc[e] = "done" /\ res[e].ok /\ note[e].reached
        /\ target[c] = w /\ pc[c] = "done" /\ res[c].ok /\ ~note[c].reached
        /\ target[d] = w /\ pc[d] = "done" /\ PipeFailure(res[d])
        /\ execution_count[w] = 1
        /\ rcvd[w] = 1
\* C35: the back-pressure error of WorkerPool::execute differs in its kind
\* (the LeewardError variant) from every other error the call returns.
C35_BackPressureDistinct ==
    \A c, d \in Clients :
        ( /\ pc[c] = "done" /\ BackPressure(res[c])
          /\ pc[d] = "done" /\ ~res[d].ok /\ ~BackPressure(res[d]) )
        => res[c].kind # res[d].kind

\* The requests whose Worker::execute has returned Ok(result) and whose
\* WorkerPool::execute has not returned yet.
ExecuteSucceeded(c) == pc[c] \in { "check_recycle", "spawn", "recycled" }

\* C38: once Worker::execute has succeeded for a request, WorkerPool::execute
\* returns that result to the caller, whatever becomes of the recycle that
\* follows the execution.
C38_ResultSurvivesRecycle ==
    [][ \A c \in Clients :
          (ExecuteSucceeded(c) /\ pc'[c] = "done") => res'[c] = Ok(got[c])
      ]_vars

\* The workers left Busy by an execute that returned an error after it had
\* set Busy, with no execute under way.
StuckBusy(w) ==
    /\ state[w] = "Busy"
    /\ Executing(w) = {}
    /\ \E d \in Clients :
         /\ pc[d] = "done"
         /\ target[d] = w
         /\ ~res[d].ok
         /\ note[d].exec_pid # NoPid

\* C39: status() and get_idle() look at a worker under its guard, which an
\* execute holds from before it sets Busy until it returns; so neither of
\* them looks at a worker while an execute is under way on it, and a worker
\* that either of them finds Busy, and that Status counts as busy, is one that
\* a failed execute has left Busy.
C39_LooksOutsideExecute ==
    [][ /\ \A k \in Conns :
             cn_st'[k].i = cn_st[k].i + 1
             => /\ Executing(cn_st[k].i) = {}
                /\ state[cn_st[k].i] = "Busy" => StuckBusy(cn_st[k].i)
                /\ cn_st'[k].busy = cn_st[k].busy + 1 <=> state[cn_st[k].i] = "Busy"
        /\ \A c \in Clients :
             (pc[c] = "get_idle" /\ (idx'[c] # idx[c] \/ pc'[c] = "execute"))
             => /\ Executing(idx[c]) = {}
                /\ state[idx[c]] = "Busy" => StuckBusy(idx[c])
      ]_vars

\* C39 witness: a Status response reports one worker busy, the one a failed
\* execute has left Busy, while the other worker has an execute under way
\* that a request found it Idle for after that status had looked at it.
C39_Witness ==
    \E k \in Conns, w, v \in Workers :
        /\ cn_last[k].type = "Status"
        /\ cn_last[k].busy = 1
        /\ cn_last[k].idle = 1
        /\ StuckBusy(w)
        /\ Executing(v) # {}

\* Two byte ranges [a, a + n) and [b, b + n) have a byte in common.
Overlap(a, b, n) == a < b + n /\ b < a + n

\* C36: no two SlotPairs that were handed out and not freed have the same
\* slot_id, and neither their request ranges nor their response ranges
\* overlap.
C36_SlotsDistinct ==
    \A t, u \in Owners :
        t # u
        => /\ shm_own[t] # shm_own[u]
           /\ ~Overlap(SlotPair(shm_own[t]).request_offset,
                       SlotPair(shm_own[u]).request_offset, REQUEST_SLOT_SIZE)
           /\ ~Overlap(SlotPair(shm_own[t]).response_offset,
                       SlotPair(shm_own[u]).response_offset, RESPONSE_SLOT_SIZE)

\* The bytes of the mapping that differ between two contents of it lie in
\* [lo, hi).
SameOutside(mem, prev, lo, hi) ==
    /\ Load(mem, 0, lo) = Load(prev, 0, lo)
    /\ Load(mem, hi, ArenaSize - hi) = Load(prev, hi, ArenaSize - hi)

\* C37: read_response and write_request touch only bytes of the slot they
\* are given: an accepted write_request changes no byte outside the slot's
\* request range, and for every length read_response accepts, the prefix and
\* the payload it reads lie inside the slot's response range and inside the
\* arena.
C37_StaysInSlot ==
    /\ sm_res = "Ok" =>
          SameOutside(sm_mem, sm_prev, SlotPair(sm_slot).request_offset,
                      SlotPair(sm_slot).request_offset + REQUEST_SLOT_SIZE)
    /\ (sm_rd.res # "none" /\ ~ResponseTooLarge(sm_rd.len)) =>
          /\ sm_rd.res = "Ok"
          /\ SlotPair(sm_rd.slot).response_offset <= sm_rd.lo
          /\ sm_rd.hi <= SlotPair(sm_rd.slot).response_offset + RESPONSE_SLOT_SIZE
          /\ sm_rd.hi <= ArenaSize

C31_CodecRoundTrip ==
    cd_out # NoMessage => (cd_out # DecodeError /\ cd_out = cd_val)

\* C31 witness: an Execute request with no code, a slot id, a timeout and an
\* input file has come back from decode as it was.
C31_Witness ==
    /\ cd_kind = "Request"
    /\ cd_out = cd_val
    /\ cd_val.type = "Execute"
    /\ cd_val.code = None
    /\ cd_val.shm_slot_id = Some(0)
    /\ cd_val.timeout # None
    /\ cd_val.files # << >>

\* The mount steps a configuration asks for, in the order root setup, each
\* read-only bind followed by its remount, the read-write binds, the tmpfs
\* mounts.
ConfiguredSteps(cfg) ==
    << MountOp("create_root", "", 0, TRUE) >>
    \o [j \in 1 .. 2 * Len(cfg.ro_binds) |->
          IF j % 2 = 1 THEN MountOp("bind", "ro", (j + 1) \div 2, TRUE)
                       ELSE MountOp("remount_ro", "ro", j \div 2, TRUE)]
    \o [j \in 1 .. Len(cfg.rw_binds) |-> MountOp("bind", "rw", j, TRUE)]
    \o [j \in 1 .. Len(cfg.tmpfs) |-> MountOp("tmpfs", "tmpfs", j, TRUE)]

\* The operations done before the root was pivoted, if it was.
Pivoted == \E j \in 1 .. Len(mt_log) : mt_log[j].op = "pivot_root" /\ mt_log[j].ok
BeforePivot ==
    SubSeq(mt_log, 1,
           (CHOOSE j \in 1 .. Len(mt_log) : mt_log[j].op = "pivot_root") - 1)

\* C40: the root is pivoted only after every configured mount step has
\* succeeded, in the order root setup, read-only binds (each bind followed
\* at once by its read-only remount), read-write binds, tmpfs mounts; when a
\* mount step fails, apply returns a Mount error and the root is not pivoted.
C40_PivotAfterEveryMount ==
    /\ Pivoted => BeforePivot = ConfiguredSteps(mt_cfg)
    /\ \A j \in 1 .. Len(mt_log) :
          (~mt_log[j].ok /\ mt_log[j].op \notin { "pivot_root", "detach" })
              => (mt_pc = "done" /\ mt_ret = "Mount" /\ ~Pivoted)

====
